---- MODULE Spec2Model ----
(***************************************************************************)
(* A model of the compositor engine of compton: the window stack and the   *)
(* id-index (win.c: add_win, finish_destroy_win; compton.c: restack_win,   *)
(* circulate_win), the window lifecycle state machine (win.c: map_win,     *)
(* unmap_win, win_update_focused, win_check_fade_finished), the per-frame  *)
(* preprocess (compton.c: paint_preprocess, run_fade) and the redirect     *)
(* controller (compton.c: redir_start, redir_stop, configure_root).        *)
(*                                                                         *)
(* A win structure is a heap cell with an address in Addr.  A pointer to a *)
(* win is an address (NULL = 0); a pointer to a pointer to a win (win **,  *)
(* as in w->prev and in restack_win) is a slot: 0 is &ps->window_stack and *)
(* n > 0 is &n->next.  Opacity is a whole number of units, MaxOpacity      *)
(* units being the double 1.0.  Time is kept relative to ps->fade_time.    *)
(***************************************************************************)
EXTENDS Integers, Sequences, FiniteSets, TLC

\* ---------------------------------------------------------------- bounds
MaxWin == 2          \* win structures the heap can hold at one time
MaxId == 2           \* X window ids are 1..MaxId
MaxOpacity == 2      \* units of opacity that make up 1.0
MaxElapsed == 2      \* most milliseconds between two readings of the clock
ScreenCells == 2     \* cells the root window is divided into
MaxCalls == 2        \* calls of queue_redraw that are counted between frames

NULL == 0
MAX_ALPHA == 255
Addr == 1..(MaxWin + 1)     \* the cells of the heap
Cells == 1..MaxWin          \* the cells malloc hands out while events arrive
Ids == 1..MaxId             \* the ids the events of a run are about
Xids == 1..(MaxId + 1)      \* the ids a window can have
HeadSlot == NULL     \* the slot &ps->window_stack; slot n is &n->next

Screen == 1..ScreenCells
WSTATE == {"UNMAPPED", "MAPPING", "MAPPED", "FADING", "UNMAPPING", "DESTROYING"}

VARIABLES
    win,            \* the heap: Addr -> win structure
    window_stack,   \* ps->window_stack: address of the topmost win, or NULL
    windows,        \* ps->windows: the hash table, id -> address or NULL
    active_win,     \* ps->active_win
    redirected,     \* ps->redirected
    fade_time,      \* -1 when ps->fade_time is 0 (unset); else the time from
                    \* ps->fade_time to the last reading of the clock
    o,              \* ps->o: the options
    env,            \* what the X server and the backend may do in this run
    halted,         \* "no", or how the process stopped: "abort", "hang",
                    \* "exit"
    damage_ring,    \* ps->damage_ring: one region for each buffer age, <<>>
                    \* when the ring is not allocated
    damage,         \* ps->damage: the index of the current region of the
                    \* ring, 0 when the ring is not allocated
    added,          \* history: added[i] is the damage, on the screen, that
                    \* was added to the ring while the region that was the
                    \* current one i - 1 presents ago was, as long as the ring
    unredir_timer,  \* ev_is_active(&ps->unredir_timer)
    tmout_unredir_hit,  \* ps->tmout_unredir_hit
    tree,           \* the reply to QueryTree that session_init works through:
                    \* the children of the root, the bottom-most first, how
                    \* many of them it has added, and how many it has mapped
    loop            \* the watchers of the event loop and what goes with
                    \* them: ps->redraw_needed, whether draw_idle,
                    \* delayed_draw_timer and fade_timer are active, the
                    \* counter paint of _draw_callback; and as history the
                    \* calls of queue_redraw since the last frame (calls)
                    \* and a mark that every frame flips (frames)

VARIABLES
    ignore          \* the ignore list of X request serials, from
                    \* ps->ignore_head on (list); and of the connection the
                    \* serial of the next request (next), the serial that
                    \* arrived last (seen) and what should_ignore returned
                    \* for it (ret)

vars == <<win, window_stack, windows, active_win, redirected, fade_time, o, env,
          halted, damage_ring, damage, added, unredir_timer, tmout_unredir_hit, tree,
          loop, ignore>>

\* The static initializer win_def of add_win, for a cell not in use.
win_def == [
    alloc |-> FALSE, id |-> NULL, next |-> NULL, prev |-> HeadSlot,
    state |-> "UNMAPPED", opacity |-> 0, opacity_tgt |-> 0,
    input_only |-> FALSE, viewable |-> FALSE,
    win_image |-> FALSE, shadow |-> FALSE, shadow_image |-> FALSE,
    shadow_force |-> "UNSET",
    image_error |-> FALSE, stale_image |-> FALSE,
    has_opacity_prop |-> FALSE, opacity_prop |-> MaxOpacity, focused |-> FALSE,
    ever_damaged |-> FALSE, to_paint |-> FALSE, mode |-> "TRANS",
    g |-> {}, reg_ignore |-> {-1}, reg_ignore_valid |-> FALSE,
    prev_trans |-> NULL, paint_excluded |-> FALSE,
    unredir_if_possible_excluded |-> FALSE ]

\* A region is the set of screen cells it covers; NoRegion is the NULL
\* rc_region_t pointer.
NoRegion == {-1}

\* What a frame has done: the locals steps, fade_running and t of
\* paint_preprocess (t as the list that prev_trans makes, its head first),
\* whether _draw_callback has painted, the value that ps->redirected had
\* after the preprocess, the region that was painted, the local
\* unredir_possible of the last paint_preprocess, what it did to the
\* unredirect timer ("started", "stopped", or "left" alone), and the history
\* of the damage as the paint pass found it.
NoFrame == [ steps |-> 0, fade_running |-> FALSE, t |-> <<>>, paint |-> FALSE,
             redirected |-> FALSE, region |-> {-1}, unredir_possible |-> FALSE,
             timer |-> "left", added |-> <<>> ]

\* The session as one value, threaded through a handler.  Besides the state
\* of the session it collects what the handler did: the assertions that
\* failed, the changes of lifecycle state (trans), the frame, whether a
\* redraw was queued, and whether freed memory was used (ub).  max_buffer_age
\* is ps->backend_data->ops->max_buffer_age, and buffer_age what the backend
\* answers when it is asked for the age of the buffer (-1: the buffer is
\* empty), overlay is ps->overlay.
Session == [
    win |-> win, window_stack |-> window_stack, windows |-> windows,
    active_win |-> active_win, redirected |-> redirected,
    fade_time |-> fade_time, o |-> o, halted |-> halted,
    damage_ring |-> damage_ring, damage |-> damage, added |-> added,
    unredir_timer |-> unredir_timer, tmout_unredir_hit |-> tmout_unredir_hit,
    max_buffer_age |-> env.max_buffer_age, buffer_age |-> -1,
    overlay |-> env.overlay, failed |-> {},
    trans |-> {}, frame |-> NoFrame, queued |-> FALSE, ub |-> FALSE,
    redraw_needed |-> loop.redraw_needed, draw_idle |-> loop.draw_idle,
    delayed_draw_timer |-> loop.delayed_draw_timer,
    fade_timer |-> loop.fade_timer, paint |-> loop.paint,
    calls |-> loop.calls, frames |-> loop.frames ]

\* ------------------------------------------------------- memory accesses
\* A read or write of a freed win is undefined behaviour: it is recorded in ub.
Touch(s, w) == IF s.win[w].alloc THEN s ELSE [s EXCEPT !.ub = TRUE]

Deref(s, slot) == IF slot = HeadSlot THEN s.window_stack ELSE s.win[slot].next

Store(s, slot, w) ==
    IF slot = HeadSlot THEN [s EXCEPT !.window_stack = w]
    ELSE [Touch(s, slot) EXCEPT !.win[slot].next = w]

AssertThat(s, cond, name) ==
    IF cond THEN s ELSE [s EXCEPT !.failed = @ \cup {name}]

Hang(s) == [s EXCEPT !.halted = "hang"]

\* The nodes met by following next from the top, until NULL or a node met before.
RECURSIVE ChainFrom(_, _, _)
ChainFrom(w, n, acc) ==
    IF n = NULL \/ (\E i \in 1..Len(acc) : acc[i] = n) THEN acc
    ELSE ChainFrom(w, w[n].next, Append(acc, n))

Chain(w, head) == ChainFrom(w, head, <<>>)

Cyclic(w, head) ==
    LET c == Chain(w, head) IN Len(c) > 0 /\ w[c[Len(c)]].next # NULL

InChain(w, head, n) == \E i \in 1..Len(Chain(w, head)) : Chain(w, head)[i] = n

\* WIN_STACK_ITER over a stack that is left alone by the loop body (the
\* prev_trans loop of finish_destroy_win): a cycle never ends, freed nodes are
\* read.
Walk(s) ==
    LET c == Chain(s.win, s.window_stack) IN
    IF Cyclic(s.win, s.window_stack) THEN Hang(s)
    ELSE IF \E i \in 1..Len(c) : ~s.win[c[i]].alloc THEN [s EXCEPT !.ub = TRUE]
    ELSE s

\* ------------------------------------------------------------- find_win
find_win(s, id) == IF id = NULL THEN NULL ELSE s.windows[id]

\* find_win with its assertion
find_win_checked(s, id) ==
    AssertThat(s, find_win(s, id) = NULL \/ s.win[find_win(s, id)].state # "DESTROYING",
               "find_win")

\* win_is_focused_real
win_is_focused_real(s, w) == s.win[w].viewable /\ s.active_win = w

\* ---------------------------------------------------------------- damage
\* win_extents.  A region is kept as the screen cells it covers; the shadow of
\* a window covers the cells of its body.
win_extents(W) == W.g \cap Screen

\* add_damage that overwrites the current region of the ring
add_damage_over(s, region) ==
    IF ~s.redirected \/ region = NoRegion \/ s.halted # "no" THEN s
    ELSE IF s.damage = 0 THEN [s EXCEPT !.halted = "abort"]
    ELSE [s EXCEPT !.damage_ring[s.damage] = region,
                   !.added[1] = @ \cup (region \cap Screen)]

\* add_damage; region is NoRegion for a NULL pointer.  The damage is noted in
\* the history as well.
add_damage(s, region) ==
    IF ~s.redirected \/ region = NoRegion \/ s.halted # "no" THEN s
    ELSE IF s.damage = 0 THEN [s EXCEPT !.halted = "abort"]
    ELSE [s EXCEPT !.damage_ring[s.damage] = @ \cup region,
                   !.added[1] = @ \cup (region \cap Screen)]

add_damage_from_win(s, w) == add_damage(s, win_extents(s.win[w]))

\* A queue_redraw that notes the request and starts no watcher
queue_redraw_unscheduled(s) ==
    [s EXCEPT !.queued = TRUE, !.redraw_needed = TRUE,
              !.calls = IF @ < MaxCalls THEN @ + 1 ELSE @]

\* queue_redraw: draw_idle is started unless a redraw is needed already or
\* benchmark mode is on.  The call is counted, up to MaxCalls.
queue_redraw(s) ==
    [s EXCEPT !.queued = TRUE,
              !.draw_idle = IF ~s.redraw_needed /\ s.o.benchmark = 0 THEN TRUE ELSE @,
              !.redraw_needed = TRUE,
              !.calls = IF @ < MaxCalls THEN @ + 1 ELSE @]

force_repaint(s) == add_damage(queue_redraw(s), Screen)

\* ------------------------------------------------ lifecycle primitives
\* An assignment to w->state; the change is logged in trans.
SetState(s, w, st) ==
    [s EXCEPT !.win[w].state = st,
              !.trans = IF s.win[w].state = st THEN @
                        ELSE @ \cup {<<s.win[w].state, st>>}]

\* A win_calc_opacity_target that lets the opacity property and the window
\* type win over inactive_opacity_override
win_calc_opacity_target_prop_first(s, w) ==
    LET W == s.win[w] IN
    IF W.state \in {"UNMAPPED", "UNMAPPING", "DESTROYING"} THEN 0
    ELSE IF W.has_opacity_prop THEN W.opacity_prop
    ELSE IF s.o.wintype_opacity >= 0 THEN s.o.wintype_opacity
    ELSE IF s.o.inactive_opacity_override /\ ~W.focused THEN s.o.inactive_opacity
    ELSE IF win_is_focused_real(s, w) THEN s.o.active_opacity
    ELSE IF ~W.focused THEN s.o.inactive_opacity
    ELSE MaxOpacity

\* win_calc_opacity_target.  Every window has the same window type, whose
\* opacity is wintype_opacity (-1: NaN, not set).
win_calc_opacity_target(s, w) ==
    LET W == s.win[w]
        base == IF W.has_opacity_prop THEN W.opacity_prop
                ELSE IF s.o.wintype_opacity >= 0 THEN s.o.wintype_opacity
                ELSE IF win_is_focused_real(s, w) THEN s.o.active_opacity
                ELSE IF ~W.focused THEN s.o.inactive_opacity
                ELSE MaxOpacity
    IN  IF W.state = "UNMAPPED" THEN 0
        ELSE IF W.state \in {"UNMAPPING", "DESTROYING"} THEN 0
        ELSE IF s.o.inactive_opacity_override /\ ~W.focused
             THEN s.o.inactive_opacity
        ELSE base

win_calc_mode(W) == IF W.opacity < MaxOpacity THEN "TRANS" ELSE "SOLID"

win_should_fade(s, w) == s.o.fade

\* win_on_factor_change.  paint_blacklist holds the ids of the windows that
\* the rules of the paint blacklist match, and unredir_if_possible_blacklist
\* the ids of those that the rules of that list match; each is empty when
\* there is no list.
win_on_factor_change(s, w) ==
    [s EXCEPT !.win[w].reg_ignore_valid = FALSE,
              !.win[w].paint_excluded =
                  IF s.win[w].viewable /\ s.o.paint_blacklist # {}
                  THEN s.win[w].id \in s.o.paint_blacklist ELSE @,
              !.win[w].unredir_if_possible_excluded =
                  IF s.win[w].viewable /\ s.o.unredir_if_possible_blacklist # {}
                  THEN s.win[w].id \in s.o.unredir_if_possible_blacklist ELSE @]

\* w->focused = win_is_focused_real(ps, w)
set_focused(s, w) == [s EXCEPT !.win[w].focused = win_is_focused_real(s, w)]

\* w->opacity_tgt = win_calc_opacity_target(ps, w)
set_opacity_tgt(s, w) ==
    [s EXCEPT !.win[w].opacity_tgt = win_calc_opacity_target(s, w)]

\* A win_update_focused that leaves a MAPPED window MAPPED
win_update_focused_no_fade(s, w) == set_opacity_tgt(set_focused(s, w), w)

win_update_focused(s, w) ==
    IF /\ win_calc_opacity_target(set_focused(s, w), w) # s.win[w].opacity_tgt
       /\ s.win[w].state = "MAPPED"
    THEN SetState(set_opacity_tgt(set_focused(s, w), w), w, "FADING")
    ELSE set_opacity_tgt(set_focused(s, w), w)

\* win_on_focus_change, without leader tracking
win_on_focus_change(s, w) == win_on_factor_change(win_update_focused(s, w), w)

\* A win_set_focused(ps, w, false) that leaves ps->active_win as it is
win_set_focused_out_keeps_active(s, w) ==
    IF ~s.win[w].viewable THEN s
    ELSE IF ~win_is_focused_real(s, w) THEN s
    ELSE win_on_focus_change(s, w)

\* win_set_focused(ps, w, false)
win_set_focused_out(s, w) ==
    IF ~s.win[w].viewable THEN s
    ELSE IF ~win_is_focused_real(s, w) THEN s
    ELSE LET s1 == IF s.active_win = w THEN [s EXCEPT !.active_win = NULL] ELSE s
         IN win_on_focus_change(
                AssertThat(s1, ~win_is_focused_real(s1, w), "win_set_focused"), w)

\* win_set_focused(ps, w, true) from  ps->active_win = w  onwards
win_set_focused_in(s, w) ==
    win_on_focus_change(
        AssertThat([s EXCEPT !.active_win = w],
                   win_is_focused_real([s EXCEPT !.active_win = w], w),
                   "win_set_focused"), w)

win_set_focused(s, w, focused) ==
    IF ~focused THEN win_set_focused_out(s, w)
    ELSE IF ~s.win[w].viewable THEN s
    ELSE IF win_is_focused_real(s, w) THEN s
    ELSE win_set_focused_in(IF s.active_win # NULL
                            THEN win_set_focused_out(s, s.active_win) ELSE s, w)

win_release_image(s, w) ==
    LET W == s.win[w]
        s1 == AssertThat(s, W.win_image \/ W.image_error, "win_release_image")
        s2 == [s1 EXCEPT !.win[w].win_image = FALSE]
    IN  IF W.shadow
        THEN [AssertThat(s2, W.shadow_image \/ W.image_error,
                         "win_release_image_shadow")
                 EXCEPT !.win[w].shadow_image = FALSE]
        ELSE s2

\* win_bind_image whose caller does not set the flag when it fails
win_bind_image_unflagged(s, w, ok) ==
    IF ok /\ ~s.win[w].input_only
    THEN [s EXCEPT !.win[w].win_image = TRUE,
                   !.win[w].shadow_image = IF s.win[w].shadow THEN TRUE ELSE @]
    ELSE [s EXCEPT !.win[w].win_image = FALSE]

\* win_bind_image followed by the caller's  w->flags |= WIN_FLAGS_IMAGE_ERROR
\* when it fails.  ok is the outcome of naming the pixmap, binding it and
\* rendering the shadow; the pixmap of an InputOnly window cannot be named.
win_bind_image(s, w, ok) ==
    LET W == s.win[w]
        s1 == AssertThat(s, ~W.win_image /\ ~W.shadow_image, "win_bind_image")
    IN  IF ok /\ ~W.input_only
        THEN [s1 EXCEPT !.win[w].win_image = TRUE,
                        !.win[w].shadow_image = IF W.shadow THEN TRUE ELSE @]
        ELSE [s1 EXCEPT !.win[w].win_image = FALSE, !.win[w].image_error = TRUE]

win_set_shadow(s, w, shadow_new, shadow_ok) ==
    LET W == s.win[w] IN
    IF W.shadow = shadow_new THEN s
    ELSE add_damage_from_win(
             IF s.redirected /\ W.state # "UNMAPPED" /\ ~W.image_error
             THEN [AssertThat(s, ~W.shadow_image, "win_set_shadow")
                      EXCEPT !.win[w].shadow_image = shadow_ok,
                             !.win[w].shadow_force = IF shadow_ok THEN @ ELSE "OFF",
                             !.win[w].shadow = shadow_new]
             ELSE [s EXCEPT !.win[w].shadow = shadow_new],
             w)

\* win_determine_shadow; the window types and the rules give every viewable
\* window a shadow when the option shadow is on
win_determine_shadow(s, w, shadow_ok) ==
    win_set_shadow(s, w,
                   IF s.win[w].shadow_force # "UNSET" THEN s.win[w].shadow_force = "ON"
                   ELSE IF s.win[w].viewable THEN s.o.shadow
                   ELSE s.win[w].shadow,
                   shadow_ok)

\* win_set_shadow_force, called for a request that arrives over D-Bus
win_set_shadow_force(s, w, val, shadow_ok) ==
    IF val # s.win[w].shadow_force
    THEN queue_redraw(win_determine_shadow([s EXCEPT !.win[w].shadow_force = val],
                                           w, shadow_ok))
    ELSE s

win_on_win_size_change(s, w) ==
    IF s.redirected
    THEN IF s.win[w].state \in {"MAPPED", "MAPPING", "FADING"}
         THEN [s EXCEPT !.win[w].stale_image = TRUE]
         ELSE AssertThat(s, s.win[w].state = "UNMAPPED", "win_on_win_size_change")
    ELSE s

win_update_bounding_shape(s, w) ==
    LET s1 == IF s.redirected /\ s.win[w].state # "UNMAPPED"
              THEN [AssertThat(s, s.win[w].state \notin {"UNMAPPING", "DESTROYING"},
                               "win_update_bounding_shape")
                       EXCEPT !.win[w].stale_image = TRUE]
              ELSE s
    IN win_on_factor_change(s1, w)

\* finish_unmap_win up to  w->state = WSTATE_UNMAPPED
finish_unmap_win_state(s, w) ==
    SetState([s EXCEPT !.win[w].ever_damaged = FALSE,
                       !.win[w].reg_ignore_valid = FALSE], w, "UNMAPPED")

\* finish_unmap_win that keeps the image
finish_unmap_win_keeps_image(s, w) ==
    [ finish_unmap_win_state(s, w)
      EXCEPT !.win[w].image_error = FALSE, !.win[w].stale_image = FALSE ]

finish_unmap_win(s, w) ==
    [ (IF s.redirected THEN win_release_image(finish_unmap_win_state(s, w), w)
       ELSE finish_unmap_win_state(s, w))
      EXCEPT !.win[w].image_error = FALSE, !.win[w].stale_image = FALSE ]

\* What is left of a win after free(w).  The links, the id, the state and the
\* opacity stay in the freed memory for whoever reads it through a stale
\* pointer; so do the handles of the images, which free_win_res does not
\* release.
Freed(W) ==
    [win_def EXCEPT !.id = W.id, !.next = W.next, !.prev = W.prev,
                    !.state = W.state, !.opacity = W.opacity,
                    !.opacity_tgt = W.opacity_tgt, !.win_image = W.win_image,
                    !.shadow_image = W.shadow_image]

\* finish_destroy_win: the reg_ignore of the window below w is dropped
finish_destroy_win_below(s, w) ==
    LET nx == s.win[w].next IN
    IF nx # NULL
    THEN [Touch(s, nx) EXCEPT !.win[nx].reg_ignore = NoRegion,
                              !.win[nx].reg_ignore_valid = FALSE]
    ELSE s

\* finish_destroy_win: w is unlinked through its back-link w->prev
finish_destroy_win_unlink(s, w) ==
    LET nx == s.win[w].next
        pv == s.win[w].prev
    IN  IF nx # NULL THEN [Store(s, pv, nx) EXCEPT !.win[nx].prev = pv]
        ELSE Store(s, pv, nx)

\* finish_destroy_win: w is dropped from the prev_trans of the windows of
\* the stack
drop_prev_trans(s, w) ==
    [s EXCEPT !.win = [a \in Addr |->
        IF InChain(s.win, s.window_stack, a) /\ s.win[a].alloc
           /\ s.win[a].prev_trans = w
        THEN [s.win[a] EXCEPT !.prev_trans = NULL] ELSE s.win[a]]]

\* finish_destroy_win from  if (w == ps->active_win)  onwards: the loop over
\* prev_trans and free(w).  st is the state that w had when the call began,
\* logged as its last state.
finish_destroy_win_free(s, w, st) ==
    [ drop_prev_trans(
          Walk(IF s.active_win = w THEN [s EXCEPT !.active_win = NULL] ELSE s), w)
      EXCEPT !.win[w] = Freed(s.win[w]), !.trans = @ \cup {<<st, "freed">>} ]

finish_destroy_win(s, w) ==
    finish_destroy_win_free(
        finish_destroy_win_unlink(
            finish_destroy_win_below(
                IF s.win[w].state # "UNMAPPED"
                THEN [finish_unmap_win(s, w) EXCEPT !.trans = s.trans] ELSE s,
                w),
            w),
        w, s.win[w].state)

finish_map_win_unmapped(s, w) == SetState(s, w, "UNMAPPED")

finish_map_win(s, w) == SetState(s, w, "MAPPED")

win_check_fade_finished(s, w) ==
    LET W == s.win[w] IN
    IF W.state \in {"MAPPED", "UNMAPPED"}
    THEN AssertThat(s, W.opacity_tgt = W.opacity, "win_check_fade_finished")
    ELSE IF W.opacity # W.opacity_tgt THEN s
    ELSE CASE W.state = "UNMAPPING" -> finish_unmap_win(s, w)
           [] W.state = "DESTROYING" -> finish_destroy_win(s, w)
           [] W.state = "MAPPING" -> finish_map_win(s, w)
           [] W.state = "FADING" -> SetState(s, w, "MAPPED")

win_skip_fading(s, w) ==
    LET W == s.win[w] IN
    IF W.state \in {"MAPPED", "UNMAPPED"}
    THEN AssertThat(s, W.opacity_tgt = W.opacity, "win_skip_fading")
    ELSE win_check_fade_finished([s EXCEPT !.win[w].opacity = W.opacity_tgt], w)

\* A HASH_DEL that leaves the window in the table
HASH_DEL_kept(s, w) == s

\* HASH_DEL(ps->windows, w)
HASH_DEL(s, w) ==
    [s EXCEPT !.windows = [i \in Xids |-> IF s.windows[i] = w THEN NULL
                                         ELSE s.windows[i]]]

\* unmap_win from  win_set_focused(ps, w, false)  onwards, the focus set out
unmap_win_fade(s, w, target_state) ==
    IF ~s.redirected
    THEN win_skip_fading(
             set_opacity_tgt(SetState([s EXCEPT !.win[w].viewable = FALSE],
                                      w, target_state), w), w)
    ELSE set_opacity_tgt(SetState([s EXCEPT !.win[w].viewable = FALSE],
                                  w, target_state), w)

\* unmap_win after the HASH_DEL
unmap_win_deleted(s, w, destroy) ==
    IF s.win[w].state = "UNMAPPED" \/ s.win[w].input_only
    THEN IF ~destroy THEN s ELSE finish_destroy_win(s, w)
    ELSE unmap_win_fade(win_set_focused(s, w, FALSE), w,
                        IF destroy THEN "DESTROYING" ELSE "UNMAPPING")

unmap_win(s, w, destroy) ==
    LET W == s.win[w]
        target_state == IF destroy THEN "DESTROYING" ELSE "UNMAPPING"
        s1 == AssertThat(s, ~(W.state = "DESTROYING" /\ ~destroy), "unmap_win")
    IN
    IF w = NULL THEN s
    ELSE IF ~destroy /\ W.input_only THEN s
    ELSE IF W.state = target_state THEN s1
    ELSE unmap_win_deleted(IF destroy THEN HASH_DEL(s1, w) ELSE s1, w, destroy)

win_update_opacity_prop(s, w, prop) ==
    [s EXCEPT !.win[w].has_opacity_prop = (prop >= 0),
              !.win[w].opacity_prop = IF prop >= 0 THEN prop ELSE @]

\* map_win:  w->a.map_state = XCB_MAP_STATE_VIEWABLE  and
\* w->mode = win_calc_mode(w)
map_win_viewable(s, w) ==
    [s EXCEPT !.win[w].viewable = TRUE, !.win[w].mode = win_calc_mode(s.win[w])]

\* map_win: win_recheck_client or win_mark_client
map_win_client(s, w) == win_update_focused(win_on_factor_change(s, w), w)

\* map_win from  w->state = WSTATE_MAPPING  to the reset of the STALE_IMAGE flag
map_win_mapping(s, w) ==
    [ win_update_bounding_shape(
          [set_opacity_tgt(SetState(s, w, "MAPPING"), w)
              EXCEPT !.win[w].ever_damaged = FALSE], w)
      EXCEPT !.win[w].stale_image = FALSE ]

\* map_win: the image is bound if the screen is redirected, and the fade
\* skipped if it is not
map_win_bind(s, w, bind_ok) ==
    IF s.redirected THEN win_bind_image(s, w, bind_ok) ELSE win_skip_fading(s, w)

\* map_win from the reply to GetGeometry onwards
map_win_geometry(s, w, geom, prop, bind_ok, shadow_ok) ==
    IF geom = NoRegion THEN s
    ELSE map_win_bind(
             map_win_mapping(
                 win_determine_shadow(
                     win_update_opacity_prop(
                         win_update_focused(
                             map_win_client(
                                 map_win_viewable(
                                     win_on_win_size_change(
                                         [s EXCEPT !.win[w].g = geom], w), w), w), w),
                         w, prop),
                     w, shadow_ok),
                 w),
             w, bind_ok)

\* map_win.  The replies of the X server and of the backend are its inputs:
\* geom is the reply to GetGeometry (NoRegion when the request fails), prop
\* the value of _NET_WM_WINDOW_OPACITY (-1 when the property is not set),
\* bind_ok and shadow_ok the outcomes of binding the pixmap and of rendering
\* the shadow.
map_win(s, w, geom, prop, bind_ok, shadow_ok) ==
    LET W == s.win[w]
        s1 == AssertThat(s, W.state # "DESTROYING", "map_win")
    IN
    IF W.input_only THEN s
    ELSE IF W.state \notin {"UNMAPPED", "UNMAPPING"} THEN s1
    ELSE map_win_geometry(IF W.state = "UNMAPPING"
                          THEN add_damage_from_win(win_skip_fading(s1, w), w)
                          ELSE s1,
                          w, geom, prop, bind_ok, shadow_ok)

\* ------------------------------------------------------ the window stack
\* add_win.  reply is the answer to GetWindowAttributes: not ok (no reply, or
\* map_state UNVIEWABLE), or the class and map state of the window;
\* damage_ok is the outcome of creating the damage object, a the cell that
\* malloc returns.

\* An add_win that links the new win in below the window at its insertion
\* point
add_win_below(s, id, p, reply, a) ==
    LET q == IF Deref(s, p) # NULL THEN Deref(s, p) ELSE p
        nx == Deref(s, q)
        new == [win_def EXCEPT !.alloc = TRUE, !.id = id,
                               !.input_only = reply.input_only,
                               !.viewable = reply.viewable,
                               !.next = nx, !.prev = q]
    IN  [ Store(IF nx # NULL
                THEN [Touch([s EXCEPT !.win[a] = new], nx) EXCEPT !.win[nx].prev = a]
                ELSE [s EXCEPT !.win[a] = new],
                q, a)
          EXCEPT !.windows[id] = a ]

\* add_win from  new->next = *p  onwards: the new win, in cell a, is linked
\* in at the slot p and entered in the hash table
add_win_at(s, id, p, reply, a) ==
    LET nx == Deref(s, p)
        new == [win_def EXCEPT !.alloc = TRUE, !.id = id,
                               !.input_only = reply.input_only,
                               !.viewable = reply.viewable,
                               !.next = nx, !.prev = p]
    IN  [ Store(IF nx # NULL
                THEN [Touch([s EXCEPT !.win[a] = new], nx) EXCEPT !.win[nx].prev = a]
                ELSE [s EXCEPT !.win[a] = new],
                p, a)
          EXCEPT !.windows[id] = a ]

\* An add_win that does not look for the id in the hash table
add_win_again(s, id, prev, reply, damage_ok, a) ==
    LET pw == find_win(s, prev)
        p == s.win[pw].prev
    IN
    IF id = s.overlay THEN s
    ELSE IF ~reply.ok THEN s
    ELSE IF ~reply.input_only /\ ~damage_ok THEN s
    ELSE IF prev = NULL THEN add_win_at(s, id, HeadSlot, reply, a)
    ELSE IF pw = NULL
    THEN [AssertThat(s, FALSE, "add_win") EXCEPT !.halted = "abort"]
    ELSE add_win_at(IF p # HeadSlot THEN Touch(s, p) ELSE s, id, p, reply, a)

add_win(s, id, prev, reply, damage_ok, a) ==
    LET s0 == find_win_checked(s, id)
        pw == find_win(s, prev)
        p == s.win[pw].prev
    IN
    IF id = s.overlay THEN s
    ELSE IF find_win(s, id) # NULL THEN s0
    ELSE IF ~reply.ok THEN s0
    ELSE IF ~reply.input_only /\ ~damage_ok THEN s0
    ELSE IF prev = NULL THEN add_win_at(s0, id, HeadSlot, reply, a)
    ELSE IF pw = NULL
    THEN [AssertThat(s0, FALSE, "add_win") EXCEPT !.halted = "abort"]
    ELSE add_win_at(IF p # HeadSlot THEN Touch(s0, p) ELSE s0, id, p, reply, a)

\* The loop  for (prev = &ps->window_stack; *prev; prev = &(*prev)->next)  that
\* breaks at the first node that is in hit: the slot it ends with (that of the
\* final NULL when no node is hit), whether it ever ends, and whether it
\* reads a freed node.

\* The least member of a set of positions, 0 if there is none
First(S) == IF S = {} THEN 0 ELSE CHOOSE i \in S : \A j \in S : i <= j

\* The loop over the chain c that breaks at position idx, or runs to the end
\* of c if idx = 0
ScanTo(s, c, idx) ==
    [ slot |-> IF idx > 0 THEN (IF idx = 1 THEN HeadSlot ELSE c[idx - 1])
               ELSE IF Len(c) = 0 THEN HeadSlot ELSE c[Len(c)],
      found |-> idx > 0,
      hang |-> idx = 0 /\ Cyclic(s.win, s.window_stack),
      ub |-> \E i \in 1..(IF idx > 0 THEN idx ELSE Len(c)) : ~s.win[c[i]].alloc ]

Scan(s, hit) ==
    LET c == Chain(s.win, s.window_stack) IN
    ScanTo(s, c, First({i \in 1..Len(c) : c[i] \in hit}))

\* A drop that clears the flag but keeps the region
drop_reg_ignore_keeps_region(s, w) ==
    [s EXCEPT !.win[w].reg_ignore_valid = FALSE]

\* rc_region_unref(&w->reg_ignore) and w->reg_ignore_valid = false
drop_reg_ignore(s, w) ==
    [s EXCEPT !.win[w].reg_ignore_valid = FALSE, !.win[w].reg_ignore = NoRegion]

\* restack_win:  *prev_old = w->next; w->next = *prev; *prev = w
restack_win_move(s, w, prev_old, prev) ==
    Store([Store(s, prev_old, s.win[w].next)
             EXCEPT !.win[w].next = Deref(Store(s, prev_old, s.win[w].next), prev)],
          prev, w)

\* A restack_win that moves the window without marking it as damaged
restack_win_undamaged(s, w, prev_old, prev) ==
    restack_win_move(s, w, prev_old, prev)

\* restack_win: the window is moved and marked as damaged
restack_win_damage(s, w, prev_old, prev) ==
    add_damage_from_win(restack_win_move(s, w, prev_old, prev), w)

\* restack_win after its two loops, which leave prev and prev_old
restack_win_found(s, w, new_above, prev, prev_old) ==
    LET s3 == IF prev.ub THEN [s EXCEPT !.ub = TRUE] ELSE s IN
    IF prev.hang THEN Hang(s3)
    ELSE IF new_above # NULL /\ ~prev.found THEN s3
    ELSE IF prev_old.hang THEN Hang(s3)
    ELSE restack_win_damage(IF prev_old.ub THEN [s3 EXCEPT !.ub = TRUE] ELSE s3,
                            w, prev_old.slot, prev.slot)

\* restack_win from its first loop onwards
restack_win_loops(s, w, new_above) ==
    restack_win_found(s, w, new_above,
                      Scan(s, {n \in Addr : /\ s.win[n].id = new_above
                                            /\ s.win[n].state # "DESTROYING"}),
                      Scan(s, {w}))

\* A restack_win that leaves the cached reg_ignore of the windows alone
restack_win_keeps_reg_ignore(s, w, new_above) ==
    LET W == s.win[w]
        old_above == IF W.next # NULL THEN s.win[W.next].id ELSE NULL
        s0 == IF W.next # NULL THEN Touch(s, W.next) ELSE s
    IN
    IF old_above = new_above THEN s0 ELSE restack_win_loops(s0, w, new_above)

restack_win(s, w, new_above) ==
    LET W == s.win[w]
        old_above == IF W.next # NULL THEN s.win[W.next].id ELSE NULL
        s0 == IF W.next # NULL THEN Touch(s, W.next) ELSE s
    IN
    IF old_above = new_above THEN s0
    ELSE restack_win_loops(IF W.next # NULL
                           THEN drop_reg_ignore(drop_reg_ignore(s0, w), W.next)
                           ELSE drop_reg_ignore(s0, w),
                           w, new_above)

\* The size that goes with a geometry: a window that covers the screen has the
\* size of the screen, the others share one smaller size.
SizeOf(g) == IF g = Screen THEN "screen" ELSE "small"

\* configure_win: the new geometry g is stored, and the size and the shape
\* of the window are updated if its size has changed
configure_win_size(s, w, g) ==
    IF SizeOf(s.win[w].g) # SizeOf(g)
    THEN win_update_bounding_shape(
             win_on_win_size_change([s EXCEPT !.win[w].g = g], w), w)
    ELSE [s EXCEPT !.win[w].g = g]

\* configure_win after restack_win, for a window that is mapped
configure_win_mapped(s, w, g) ==
    IF s.win[w].g # g
    THEN add_damage(win_on_factor_change(configure_win_size(s, w, g), w),
                    win_extents(s.win[w])
                        \cup win_extents(configure_win_size(s, w, g).win[w]))
    ELSE configure_win_size(s, w, g)

\* configure_win for a ConfigureNotify that carries above_sibling and geometry g
configure_win(s, id, above_sibling, g) ==
    LET w == find_win(s, id)
        s0 == find_win_checked(s, id)
    IN
    IF w = NULL THEN s0
    ELSE IF s0.win[w].state \in {"UNMAPPED", "UNMAPPING", "DESTROYING"}
    THEN restack_win(s0, w, above_sibling)
    ELSE configure_win_mapped(restack_win(s0, w, above_sibling), w, g)

\* circulate_win; on_top is ce->place == PlaceOnTop
circulate_win(s, id, on_top) ==
    LET w == find_win(s, id)
        s0 == find_win_checked(s, id)
    IN
    IF w = NULL THEN s0
    ELSE IF on_top /\ s0.window_stack = NULL THEN [s0 EXCEPT !.halted = "abort"]
    ELSE restack_win(s0, w, IF on_top THEN s0.win[s0.window_stack].id ELSE NULL)

\* recheck_focus, the X server reporting wid as the focused window
recheck_focus(s, wid) ==
    LET w == find_win(s, wid) IN
    IF w # NULL THEN win_set_focused(find_win_checked(s, wid), w, TRUE)
    ELSE find_win_checked(s, wid)

map_win_by_id(s, id, geom, prop, bind_ok, shadow_ok) ==
    LET w == find_win(s, id) IN
    IF w = NULL THEN find_win_checked(s, id)
    ELSE map_win(find_win_checked(s, id), w, geom, prop, bind_ok, shadow_ok)

\* ------------------------------------------------------------- fading
clamp(x, lo, hi) == IF x < lo THEN lo ELSE IF x > hi THEN hi ELSE x

\* A step of a fade that overshoots its target
fade_step_unclamped(opts, op, tgt, steps) ==
    IF op < tgt THEN op + opts.fade_in_step * steps
    ELSE op - opts.fade_out_step * steps

\* The opacity that run_fade moves to after steps > 0 steps
fade_step(opts, op, tgt, steps) ==
    IF op < tgt THEN clamp(op + opts.fade_in_step * steps, 0, tgt)
    ELSE clamp(op - opts.fade_out_step * steps, tgt, MaxOpacity)

\* run_fade: the session after it, and its return value
run_fade(s, w, steps) ==
    LET W == s.win[w] IN
    IF W.state \in {"MAPPED", "UNMAPPED"}
    THEN [s |-> AssertThat(s, W.opacity_tgt = W.opacity, "run_fade"), r |-> FALSE]
    ELSE LET op == IF ~win_should_fade(s, w) THEN W.opacity_tgt ELSE W.opacity IN
         IF op = W.opacity_tgt
         THEN [s |-> [s EXCEPT !.win[w].opacity = op], r |-> FALSE]
         ELSE [s |-> [s EXCEPT !.win[w].opacity =
                        IF steps = 0 THEN op
                        ELSE fade_step(s.o, op, W.opacity_tgt, steps)],
               r |-> TRUE]

\* ------------------------------------------------------ the backend
\* WIN_STACK_ITER: the next node is read before the body runs, so that the
\* body may free the node it is given.  A loop that has not ended after Fuel
\* iterations is going round a cycle.
Fuel == 2 * MaxWin + 2


\* The body of the loop of destroy_backend after win_skip_fading; was_alloc
\* says that w was not freed before it
destroy_backend_release(s, w, was_alloc) ==
    LET W == s.win[w] IN
    IF was_alloc /\ ~W.alloc THEN s
    ELSE IF W.state = "MAPPED" THEN win_release_image(s, w)
    ELSE AssertThat(AssertThat(s, ~W.win_image, "destroy_backend"),
                    ~W.shadow_image, "destroy_backend_shadow")

\* The body of the loop of destroy_backend
destroy_backend_body(s, w) ==
    destroy_backend_release(win_skip_fading(s, w), w, s.win[w].alloc)

RECURSIVE destroy_backend_from(_, _, _)
destroy_backend_from(s, w, fuel) ==
    IF w = NULL THEN s
    ELSE IF fuel = 0 THEN Hang(s)
    ELSE LET next == s.win[w].next IN
         destroy_backend_from(destroy_backend_body(Touch(s, w), w), next, fuel - 1)

destroy_backend(s) == destroy_backend_from(s, s.window_stack, Fuel)

\* The loop of initialize_backend over the hash table; the backend's own init
\* succeeds.  fails are the ids of the windows whose image cannot be bound.
RECURSIVE initialize_backend_from(_, _, _)

\* initialize_backend_from that leaves the loop after one window
initialize_backend_once(s, id, fails) ==
    IF id \notin Xids THEN s
    ELSE IF s.windows[id] # NULL /\ s.win[s.windows[id]].viewable
    THEN win_bind_image(s, s.windows[id], id \notin fails) ELSE s

initialize_backend_from(s, id, fails) ==
    IF id \notin Xids THEN s
    ELSE initialize_backend_from(
             IF s.windows[id] # NULL /\ s.win[s.windows[id]].viewable
             THEN win_bind_image(s, s.windows[id], id \notin fails) ELSE s,
             id + 1, fails)

initialize_backend(s, fails) == initialize_backend_from(s, 1, fails)

\* A damage ring of n empty regions
RECURSIVE EmptyRing(_)
EmptyRing(n) == IF n = 0 THEN <<>> ELSE Append(EmptyRing(n - 1), {})

\* redir_start after initialize_backend: the damage ring is allocated, with
\* max_buffer_age empty regions, the last of which is the current one
redir_start_ring(s) ==
    force_repaint([s EXCEPT !.damage_ring = EmptyRing(s.max_buffer_age),
                            !.damage = s.max_buffer_age,
                            !.added = EmptyRing(s.max_buffer_age),
                            !.redirected = TRUE])

redir_start(s, fails) ==
    redir_start_ring(
        initialize_backend(AssertThat(s, ~s.redirected, "redir_start"), fails))

\* A redir_stop that does not free the damage ring
redir_stop_keeps_ring(s) ==
    [destroy_backend(AssertThat(s, s.redirected, "redir_stop"))
        EXCEPT !.redirected = FALSE]

redir_stop(s) ==
    [destroy_backend(AssertThat(s, s.redirected, "redir_stop"))
        EXCEPT !.damage_ring = <<>>, !.damage = 0, !.added = <<>>,
               !.redirected = FALSE]



\* configure_root from  rc_region_unref(&ps->window_stack->reg_ignore)  onwards
configure_root_top(s, has_root_change, fails) ==
    LET top == s.window_stack
        s2 == [Touch(s, top) EXCEPT !.win[top].reg_ignore = NoRegion,
                                    !.win[top].reg_ignore_valid = FALSE]
    IN  IF s.halted # "no" THEN s
        ELSE IF s.window_stack = NULL THEN [s EXCEPT !.halted = "abort"]
        ELSE IF s.redirected /\ ~has_root_change
        THEN force_repaint(initialize_backend(s2, fails))
        ELSE force_repaint(s2)

\* configure_root: every region of the damage ring is cleared, and the last
\* one made the current one
configure_root_damage(s) ==
    [s EXCEPT !.damage_ring = EmptyRing(Len(s.damage_ring)),
              !.damage = Len(s.damage_ring)]

\* configure_root; the backend has no root_change operation when
\* has_root_change is false
configure_root(s, has_root_change, fails) ==
    configure_root_top(
        configure_root_damage(IF s.redirected /\ ~has_root_change
                              THEN destroy_backend(s) ELSE s),
        has_root_change, fails)


\* ------------------------------------------------------ paint_preprocess
\* A first loop that keeps the reg_ignore of the windows below a painted
\* window whose mode changes
fade_body_mode_keeps_reg_ignore(s, w, r, mode_old, was_painted, was_alloc) ==
    IF was_alloc /\ ~s.win[w].alloc THEN [s |-> s, r |-> r]
    ELSE [s |-> [s EXCEPT !.win[w].mode = win_calc_mode(s.win[w])], r |-> r]

\* The body of the first loop after win_check_fade_finished: the mode of the
\* window is updated, unless the window has just been freed.  r is what
\* run_fade returned.
fade_body_mode(s, w, r, mode_old, was_painted, was_alloc) ==
    LET mode == win_calc_mode(s.win[w])
        s2 == [s EXCEPT !.win[w].mode = mode]
    IN  IF was_alloc /\ ~s.win[w].alloc THEN [s |-> s, r |-> r]
        ELSE [s |-> IF was_painted /\ mode # mode_old
                    THEN [s2 EXCEPT !.win[w].reg_ignore_valid = FALSE] ELSE s2,
              r |-> r]

\* The body of the first loop after run_fade, which has left f: the window
\* is marked as damaged if it was painted and its opacity has changed.  No
\* window is dimmed (inactive_dim is 0).
fade_body_opacity(f, w, was_painted, opacity_old) ==
    IF was_painted /\ f.s.win[w].opacity # opacity_old
    THEN [f EXCEPT !.s = add_damage_from_win(f.s, w)] ELSE f

\* The body of the first loop after the damage of a change of opacity
fade_body_faded(f, w, mode_old, was_painted, was_alloc) ==
    fade_body_mode(win_check_fade_finished(f.s, w), w, f.r,
                   mode_old, was_painted, was_alloc)

\* The body of the first loop (fading): the session after it, and whether
\* run_fade said that the window is still fading.
fade_body(s, w, steps) ==
    fade_body_faded(fade_body_opacity(run_fade(s, w, steps), w,
                                      s.win[w].to_paint, s.win[w].opacity),
                    w, s.win[w].mode, s.win[w].to_paint, s.win[w].alloc)

RECURSIVE fade_from(_, _, _, _, _)

\* The first loop from the window w on, the body having left b for the
\* window before it
fade_next(b, w, steps, running, fuel) ==
    fade_from(b.s, w, steps, running \/ b.r, fuel)

fade_from(s, w, steps, running, fuel) ==
    IF w = NULL THEN [s |-> s, r |-> running]
    ELSE IF fuel = 0 THEN [s |-> Hang(s), r |-> running]
    ELSE fade_next(fade_body(Touch(s, w), w, steps), s.win[w].next, steps,
                   running, fuel - 1)

\* A second loop that links no window to the one painted before it
paint_body_prev_trans_none(acc) == NULL

\* w->prev_trans = t:  the window painted last, NULL if there is none
paint_body_prev_trans(acc) == IF acc.t = <<>> THEN NULL ELSE acc.t[1]

\* A test of the second loop that lets any painted window unredirect the
\* screen
paint_body_unredir_any(s, W, is_highest) ==
    /\ s.o.unredir_if_possible
    /\ W.mode = "SOLID" /\ W.g = Screen /\ ~W.unredir_if_possible_excluded

\* The test of the second loop for a painted window W: the screen can be
\* unredirected if W is the highest painted window, solid and full-screen,
\* and not excluded from unredirection.  No window has a frame.
paint_body_unredir(s, W, is_highest) ==
    /\ s.o.unredir_if_possible /\ is_highest
    /\ W.mode = "SOLID" /\ W.g = Screen /\ ~W.unredir_if_possible_excluded

\* The body of the second loop.  acc holds the locals of paint_preprocess:
\* the session, last_reg_ignore, unredir_possible, is_highest,
\* reg_ignore_valid and the paint list t (the head first, prev_trans onwards).

paint_body(acc, w, fails) ==
    LET s == acc.s
        W == s.win[w]
        was_painted == W.to_paint
        reg0 == IF ~acc.reg_ignore_valid THEN NoRegion ELSE W.reg_ignore
        to_paint == ~(~W.ever_damaged \/ W.g = {} \/ W.state = "UNMAPPED"
                      \/ W.opacity * MAX_ALPHA < MaxOpacity \/ W.paint_excluded)
                    /\ ~W.image_error
        valid0 == IF to_paint # was_painted THEN FALSE ELSE W.reg_ignore_valid
        solid == W.mode = "SOLID"
        rebind == to_paint /\ W.stale_image /\ ~W.image_error
        s0 == IF to_paint # was_painted THEN add_damage_from_win(s, w) ELSE s
        s1 == [s0 EXCEPT !.win[w].reg_ignore =
                             IF to_paint /\ reg0 = NoRegion THEN acc.last_reg_ignore
                             ELSE reg0,
                         !.win[w].stale_image = IF rebind THEN FALSE ELSE @,
                         !.win[w].reg_ignore_valid = TRUE,
                         !.win[w].prev_trans =
                             IF ~to_paint THEN @ ELSE paint_body_prev_trans(acc),
                         !.win[w].to_paint = to_paint]
    IN [ s |-> IF rebind /\ W.state \notin {"UNMAPPING", "DESTROYING"}
               THEN win_bind_image(win_release_image(s1, w), w, W.id \notin fails)
               ELSE s1,
         last_reg_ignore |-> IF to_paint /\ solid
                             THEN (W.g \cap Screen) \cup acc.last_reg_ignore
                             ELSE acc.last_reg_ignore,
         unredir_possible |-> IF to_paint /\ paint_body_unredir(s, W, acc.is_highest)
                              THEN TRUE ELSE acc.unredir_possible,
         is_highest |-> IF to_paint THEN FALSE ELSE acc.is_highest,
         reg_ignore_valid |-> acc.reg_ignore_valid /\ valid0,
         t |-> IF to_paint THEN <<w>> \o acc.t ELSE acc.t ]

RECURSIVE paint_from(_, _, _, _)

paint_from(acc, w, fails, fuel) ==
    IF w = NULL THEN acc
    ELSE IF fuel = 0 THEN [acc EXCEPT !.s = Hang(acc.s)]
    ELSE paint_from(paint_body([acc EXCEPT !.s = Touch(acc.s, w)], w, fails),
                    acc.s.win[w].next, fails, fuel - 1)


\* A step calculation that counts the time before fade_time was set
fade_steps_from_unset(s, dt) ==
    ((IF s.fade_time >= 0 THEN s.fade_time ELSE 0) + dt) \div s.o.fade_delta

\* The fading step calculation of paint_preprocess; dt is the time that has
\* passed since the last reading of the clock
fade_steps(s, dt) ==
    IF s.fade_time >= 0 THEN (s.fade_time + dt) \div s.o.fade_delta ELSE 0

\* ps->fade_time after the fading step calculation
paint_preprocess_time(s, dt) ==
    [s EXCEPT !.fade_time = IF s.fade_time >= 0
                            THEN s.fade_time + dt - fade_steps(s, dt) * s.o.fade_delta
                            ELSE 0]

\* paint_preprocess_unredir without the delay
paint_preprocess_unredir_at_once(s) ==
    IF ~s.redirected THEN s ELSE redir_stop(s)

\* paint_preprocess when the screen can be unredirected: it is, at once if
\* there is no delay, and when the unredirect timer has gone off if there is
\* one; the timer is started unless it is running
paint_preprocess_unredir(s) ==
    IF ~s.redirected THEN s
    ELSE IF s.o.unredir_if_possible_delay = 0 \/ s.tmout_unredir_hit
    THEN redir_stop(s)
    ELSE IF ~s.unredir_timer
    THEN [s EXCEPT !.unredir_timer = TRUE, !.frame.timer = "started"]
    ELSE s

\* paint_preprocess_redir that leaves the timer running
paint_preprocess_redir_keeps_timer(s, fails) ==
    IF ~s.redirected THEN redir_start(s, fails) ELSE s

\* paint_preprocess when the screen cannot be unredirected: the unredirect
\* timer is stopped, and the screen redirected if it is not
paint_preprocess_redir(s, fails) ==
    IF ~s.redirected
    THEN redir_start([s EXCEPT !.unredir_timer = FALSE, !.frame.timer = "stopped"],
                     fails)
    ELSE [s EXCEPT !.unredir_timer = FALSE, !.frame.timer = "stopped"]

\* paint_preprocess after its second loop, which has left acc: the screen is
\* unredirected or redirected
paint_preprocess_redirect(acc, steps, fade_running, fails) ==
    LET unredir_possible ==
            IF acc.s.o.redirected_force # "UNSET"
            THEN acc.s.o.redirected_force = "OFF"
            ELSE IF acc.s.o.unredir_if_possible /\ acc.is_highest /\ ~acc.s.redirected
            THEN TRUE ELSE acc.unredir_possible
        s2 == [acc.s EXCEPT !.frame.steps = steps,
                            !.frame.fade_running = fade_running,
                            !.frame.t = acc.t,
                            !.frame.unredir_possible = unredir_possible,
                            !.frame.timer = "left"]
    IN  IF s2.halted # "no" THEN s2
        ELSE IF unredir_possible THEN paint_preprocess_unredir(s2)
        ELSE paint_preprocess_redir(s2, fails)

\* paint_preprocess after its first loop, which has left f
paint_preprocess_paint(f, steps, fails) ==
    paint_preprocess_redirect(
        paint_from([ s |-> f.s, last_reg_ignore |-> {},
                     unredir_possible |-> FALSE, is_highest |-> TRUE,
                     reg_ignore_valid |-> TRUE, t |-> <<>> ],
                   f.s.window_stack, fails, Fuel),
        steps, f.r, fails)

\* paint_preprocess from its first loop onwards
paint_preprocess_fade(s, steps, fails) ==
    paint_preprocess_paint(fade_from(s, s.window_stack, steps, FALSE, Fuel),
                           steps, fails)

\* paint_preprocess; its results t and *fade_running are left in s.frame.
\* fails are the ids of the windows whose image cannot be bound, dt is the
\* time that has passed since the last reading of the clock.
paint_preprocess(s, fails, dt) ==
    paint_preprocess_fade(paint_preprocess_time(s, dt), fade_steps(s, dt), fails)

\* A _draw_callback that paints whenever painting is not forced off
paints_unredirected(s) == s.o.stoppaint_force # "ON"

\* The condition on which _draw_callback calls paint_all or paint_all_new
paints(s) == s.redirected /\ s.o.stoppaint_force # "ON"


\* The region of the ring that was the current one i frames ago
ring_slot(s, i) == ((s.damage - 1 - i) % Len(s.damage_ring)) + 1

\* The damage of a frame: the regions of the ring from the current one back
\* to the one that was current buffer_age - 1 frames ago, on the screen; the
\* whole screen when the buffer is empty or older than the ring.
get_damage(s) ==
    IF s.buffer_age < 1 \/ s.buffer_age > Len(s.damage_ring) THEN Screen
    ELSE UNION { s.damage_ring[ring_slot(s, i)] : i \in 0..(s.buffer_age - 1) }
             \cap Screen

\* The present of a frame: the next region of the ring becomes the current
\* one, and is cleared
rotate_damage(s) ==
    [s EXCEPT !.damage = (s.damage % Len(s.damage_ring)) + 1,
              !.damage_ring[(s.damage % Len(s.damage_ring)) + 1] = {},
              !.added = <<{}>> \o SubSeq(@, 1, Len(@) - 1)]

\* The paint pass: the damage of the frame is painted and presented
paint_all_new(s) ==
    IF s.halted # "no" \/ s.damage = 0 THEN s
    ELSE [rotate_damage(s) EXCEPT !.frame.region = get_damage(s),
                                  !.frame.added = s.added]

\* _draw_callback from the condition on which it paints onwards
draw_callback_paint(s) ==
    [(IF paints(s) THEN paint_all_new(s) ELSE s)
        EXCEPT !.frame.paint = paints(s), !.frame.redirected = s.redirected,
               !.fade_time = IF ~s.frame.fade_running THEN -1 ELSE @]

\* _draw_callback after its first call of paint_preprocess, which has left s
draw_callback_again(s, was_redirected, fails) ==
    draw_callback_paint(
        IF ~was_redirected /\ s.redirected
        THEN [paint_preprocess([s EXCEPT !.tmout_unredir_hit = FALSE], fails, 0)
                 EXCEPT !.frame.steps = s.frame.steps]
        ELSE [s EXCEPT !.tmout_unredir_hit = FALSE])

\* _draw_callback
draw_callback(s, fails, dt) ==
    draw_callback_again(paint_preprocess(s, fails, dt), s.redirected, fails)

\* _draw_callback from its beginning to its end.  In benchmark mode it begins
\* by asking for a repaint of the screen (there is no benchmark window).
\* After paint_preprocess it starts the fade timer if windows are fading and
\* stops it if none is.  It counts the frames that it paints, and in benchmark
\* mode exits after the benchmark-th; the counter is followed in benchmark
\* mode only, where it is read.  At its end it clears ps->redraw_needed: the
\* calls of queue_redraw start to be counted anew, and the mark of the frames
\* is flipped.
draw_callback_whole(s, fails, dt) ==
    LET d == draw_callback(IF s.o.benchmark > 0 THEN force_repaint(s) ELSE s,
                           fails, dt)
        counted == d.frame.paint /\ d.o.benchmark > 0 /\ d.halted = "no"
    IN  [d EXCEPT !.fade_timer = d.frame.fade_running,
                  !.paint = IF counted THEN @ + 1 ELSE @,
                  !.halted = IF counted /\ d.paint + 1 >= d.o.benchmark
                             THEN "exit" ELSE @,
                  !.redraw_needed = FALSE, !.calls = 0, !.frames = ~@]

\* draw_callback, the callback of draw_idle without pacing: the frame is
\* drawn, and draw_idle is stopped unless benchmark mode is on
draw_idle_callback(s, fails, dt) ==
    [draw_callback_whole(s, fails, dt)
        EXCEPT !.draw_idle = IF s.o.benchmark = 0 THEN FALSE ELSE @]

\* delayed_draw_callback, the callback of draw_idle with pacing; late says
\* that swopti_handle_timeout asks for a delay.  Without a delay the frame is
\* drawn at once; with one draw_idle is stopped and delayed_draw_timer
\* started, redraw_needed staying as it is.
delayed_draw_callback(s, fails, dt, late) ==
    LET a == AssertThat(AssertThat(s, s.redraw_needed, "delayed_draw_callback"),
                        ~s.delayed_draw_timer, "delayed_draw_callback") IN
    IF ~late
    THEN draw_callback_whole(
             [a EXCEPT !.draw_idle = IF s.o.benchmark = 0 THEN FALSE ELSE @],
             fails, dt)
    ELSE [a EXCEPT !.draw_idle = FALSE, !.delayed_draw_timer = TRUE]

\* delayed_draw_timer_callback: the timer, which does not repeat, goes off;
\* the frame is drawn, and draw_idle started again in benchmark mode
delayed_draw_timer_callback(s, fails, dt) ==
    [draw_callback_whole([s EXCEPT !.delayed_draw_timer = FALSE], fails, dt)
        EXCEPT !.draw_idle = IF s.o.benchmark > 0 THEN TRUE ELSE @]

\* A fade_timer_callback that asks for no frame
fade_timer_callback_unqueued(s) == [s EXCEPT !.fade_timer = FALSE]

\* fade_timer_callback: the fade timer, which does not repeat, goes off
fade_timer_callback(s) == queue_redraw([s EXCEPT !.fade_timer = FALSE])

\* repair_win: the damaged parts of the window without what the windows
\* above it hide
repair_win_parts(s, w, parts) ==
    LET pt == s.win[w].prev_trans IN
    IF pt # NULL /\ s.win[pt].reg_ignore # NoRegion
    THEN add_damage(Touch(s, pt), parts \ s.win[pt].reg_ignore)
    ELSE IF pt # NULL THEN add_damage(Touch(s, pt), parts)
    ELSE add_damage(s, parts)

\* repair_win, for a DamageNotify on the window; parts is the region that
\* the damage object of the window reports
repair_win(s, w, parts) ==
    IF ~s.win[w].viewable THEN s
    ELSE IF ~s.redirected THEN [s EXCEPT !.win[w].ever_damaged = TRUE]
    ELSE repair_win_parts([s EXCEPT !.win[w].ever_damaged = TRUE], w,
                          IF ~s.win[w].ever_damaged THEN win_extents(s.win[w])
                          ELSE parts \cap win_extents(s.win[w]))

\* ------------------------------------------------------- the environment
\* What the X server and the backend may answer: the geometries of a window,
\* the values of _NET_WM_WINDOW_OPACITY (-1: not set), the answers to
\* GetWindowAttributes, and the sets of windows whose image cannot be bound.
Geoms == {Screen, {1}, {}}
Props == {-1, 0}
Replies == {[ok |-> FALSE, input_only |-> FALSE, viewable |-> FALSE]}
           \cup [ok : {TRUE}, input_only : BOOLEAN, viewable : BOOLEAN]
Fails == SUBSET Ids

\* The simplest environment: every window is an InputOutput window that
\* covers the screen, has no opacity property and is created unmapped, every
\* request succeeds, and the only events are CreateNotify, MapNotify and
\* UnmapNotify.  The root has no children when the session starts.  The
\* backend keeps one buffer (max_buffer_age), which has age 1 at every frame,
\* and a window that is damaged is damaged as a whole.  There is no overlay
\* window.  The events are about the windows with the ids of Ids.
Plain == [
    geoms |-> {Screen}, props |-> {-1}, fails |-> {{}},
    replies |-> {[ok |-> TRUE, input_only |-> FALSE, viewable |-> FALSE]},
    ok |-> {TRUE}, events |-> {}, children |-> {<<>>},
    max_buffer_age |-> 1, ages |-> {1}, parts |-> {Screen}, overlay |-> NULL,
    ids |-> Ids ]

\* The options of the session: fading of every window type enabled, no
\* opacity set for the window type, no paint blacklist and no blacklist of
\* unredirection, the screen unredirected, without a delay, when a solid
\* full-screen window is on top.  Benchmark mode is off (benchmark is the
\* number of frames after which the benchmark ends), and so is the pacing of
\* the frames in software.
Options == [
    fade |-> TRUE, fade_in_step |-> 2, fade_out_step |-> 1, fade_delta |-> 1,
    active_opacity |-> MaxOpacity, inactive_opacity |-> MaxOpacity - 1,
    inactive_opacity_override |-> FALSE, shadow |-> FALSE,
    unredir_if_possible |-> TRUE, redirected_force |-> "UNSET",
    unredir_if_possible_delay |-> 0, stoppaint_force |-> "UNSET",
    wintype_opacity |-> -1, paint_blacklist |-> {},
    unredir_if_possible_blacklist |-> {}, benchmark |-> 0, sw_opti |-> FALSE ]

NoUnredir == [Options EXCEPT !.unredir_if_possible = FALSE]

\* Unfocused windows as opaque as focused ones
AllSolid == [Options EXCEPT !.inactive_opacity = MaxOpacity]

\* A run is a choice of options and of an environment that departs from the
\* plain one in a few respects.
Runs == {
    <<NoUnredir, [Plain EXCEPT !.events = {"destroy", "restack"}]>>,
    <<NoUnredir, [Plain EXCEPT !.events = {"destroy", "focus"}]>>,
    <<NoUnredir, [Plain EXCEPT !.events = {"destroy", "root"}, !.replies = Replies]>>,
    <<NoUnredir, [Plain EXCEPT !.events = {"destroy"}, !.props = Props]>>,
    <<NoUnredir, [Plain EXCEPT !.events = {"destroy"}, !.fails = Fails,
                               !.ok = BOOLEAN]>>,
    <<[NoUnredir EXCEPT !.fade = FALSE], [Plain EXCEPT !.events = {"destroy"}]>>,
    <<Options, [Plain EXCEPT !.events = {"destroy", "focus"}]>>,
    <<AllSolid, [Plain EXCEPT !.events = {"damage"}, !.geoms = {Screen, {1}}]>>,
    <<AllSolid, [Plain EXCEPT !.events = {"destroy", "damage"}]>>,
    <<[AllSolid EXCEPT !.unredir_if_possible_delay = 1, !.fade = FALSE],
      [Plain EXCEPT !.events = {"damage"}, !.geoms = {Screen, {1}}]>>,
    <<[NoUnredir EXCEPT !.inactive_opacity = MaxOpacity],
      [Plain EXCEPT !.events = {"restack", "damage"}]>>,
    <<[Options EXCEPT !.stoppaint_force = "ON"],
      [Plain EXCEPT !.events = {"damage"}]>>,
    <<NoUnredir, [Plain EXCEPT !.events = {"destroy"}, !.replies = Replies,
                               !.children = {<<1>>, <<1, 2>>}]>>,
    <<[NoUnredir EXCEPT !.fade = FALSE],
      [Plain EXCEPT !.events = {"damage", "restack"}, !.fails = {{}, {1}},
                    !.geoms = {{1}}, !.overlay = MaxId]>>,
    <<[NoUnredir EXCEPT !.paint_blacklist = {MaxId}],
      [Plain EXCEPT !.events = {"damage"}, !.fails = Fails]>>,
    <<[NoUnredir EXCEPT !.fade = FALSE],
      [Plain EXCEPT !.events = {"damage"}, !.max_buffer_age = 3,
                    !.ages = {-1, 1, 2, 3}, !.parts = {{1}, {2}},
                    !.overlay = MaxId]>>,
    <<[NoUnredir EXCEPT !.fade = FALSE],
      [Plain EXCEPT !.events = {"damage"}, !.ok = BOOLEAN]>>,
    <<NoUnredir, [Plain EXCEPT !.props = Props]>>,
    <<[NoUnredir EXCEPT !.inactive_opacity = MaxOpacity, !.fade_in_step = 1,
                        !.fade_delta = 2], Plain>>,
    <<[AllSolid EXCEPT !.unredir_if_possible_blacklist = {MaxId}, !.fade = FALSE],
      [Plain EXCEPT !.events = {"damage"}]>>
}

\* The event loop as session_init has set it up: no redraw needed, no
\* watcher active, nothing painted
NoLoop == [ redraw_needed |-> FALSE, draw_idle |-> FALSE,
            delayed_draw_timer |-> FALSE, fade_timer |-> FALSE, paint |-> 0,
            calls |-> 0, frames |-> FALSE ]

\* The event loop as session_run leaves it for ev_run: in benchmark mode
\* draw_idle is started, otherwise the first frame is queued
session_run(opts) ==
    IF opts.benchmark > 0 THEN [NoLoop EXCEPT !.draw_idle = TRUE]
    ELSE [NoLoop EXCEPT !.draw_idle = TRUE, !.redraw_needed = TRUE, !.calls = 1]

\* The serials of X requests, which the connection counts modulo 2^SerialBits
SerialBits == 3
RECURSIVE Pow2(_)
Pow2(n) == IF n = 0 THEN 1 ELSE 2 * Pow2(n - 1)
SerialMod == Pow2(SerialBits)
Serials == 0..(SerialMod - 1)

\* The empty ignore list of session_init, before the first request
NoIgnore == [ list |-> <<>>, next |-> 1, seen |-> 0, ret |-> FALSE ]

\* The session that session_init has set up when it asks for the children of
\* the root.  The event loop is as session_run will leave it.
InitIn(runs) ==
    /\ win = [a \in Addr |-> win_def]
    /\ window_stack = NULL
    /\ windows = [i \in Xids |-> NULL]
    /\ active_win = NULL
    /\ redirected = FALSE
    /\ fade_time = -1
    /\ damage_ring = <<>>
    /\ damage = 0
    /\ added = <<>>
    /\ unredir_timer = FALSE
    /\ tmout_unredir_hit = FALSE
    /\ \E r \in runs :
          /\ o = r[1] /\ env = r[2]
          /\ \E c \in r[2].children : tree = [children |-> c, added |-> 0, mapped |-> 0]
          /\ loop = session_run(r[1])
    /\ ignore = NoIgnore
    /\ halted = "no"

Init == InitIn(Runs)

\* The state left by a handler that returns.
Install(s) ==
    /\ win' = s.win
    /\ window_stack' = s.window_stack
    /\ windows' = s.windows
    /\ active_win' = s.active_win
    /\ redirected' = s.redirected
    /\ fade_time' = s.fade_time
    /\ damage_ring' = s.damage_ring
    /\ damage' = s.damage
    /\ added' = s.added
    /\ unredir_timer' = s.unredir_timer
    /\ tmout_unredir_hit' = s.tmout_unredir_hit
    /\ halted' = "no"
    /\ UNCHANGED <<o, env>>

\* The state left by a handler that does not return: the process is gone,
\* and its memory with it.
Stop(how) ==
    /\ win' = [a \in Addr |-> win_def]
    /\ window_stack' = NULL
    /\ windows' = [i \in Xids |-> NULL]
    /\ active_win' = NULL
    /\ redirected' = FALSE
    /\ fade_time' = -1
    /\ damage_ring' = <<>>
    /\ damage' = 0
    /\ added' = <<>>
    /\ unredir_timer' = FALSE
    /\ tmout_unredir_hit' = FALSE
    /\ halted' = how
    /\ UNCHANGED <<o, env>>

\* A handler runs to its end, unless it never ends or the process is killed.
\* A failed assertion kills the process when assertions are compiled in, and
\* a use of freed memory may kill it.
Finish(s) ==
    IF s.halted # "no" THEN Stop(s.halted)
    ELSE \/ Install(s)
         \/ (s.ub \/ s.failed # {}) /\ Stop("abort")

\* The outcome of the handler of an event
Outcome(s) == Finish(s) /\ UNCHANGED <<tree, loop, ignore>>

\* ------------------------------------------------------------ the events
\* For each event, the sessions that its handler can leave, one for each
\* answer of the X server and of the backend.
\* session_init has worked through the children of the root
Started ==
    tree.added = Len(tree.children) /\ tree.mapped = Len(tree.children)

\* The main loop runs
Running == halted = "no" /\ Started

\* session_init adds the next child of the root, above the child before it
session_init_add ==
    { add_win(Session, tree.children[tree.added + 1],
              IF tree.added > 0 THEN tree.children[tree.added] ELSE NULL,
              reply, damage_ok, a) :
        reply \in env.replies, damage_ok \in env.ok,
        a \in {c \in Addr : ~win[c].alloc /\ \A b \in Addr : ~win[b].alloc => c <= b} }

\* session_init maps the next window of the hash table if it is viewable
session_init_map ==
    IF find_win(Session, tree.children[tree.mapped + 1]) = NULL
       \/ ~win[find_win(Session, tree.children[tree.mapped + 1])].viewable
    THEN { Session }
    ELSE { map_win(Session, find_win(Session, tree.children[tree.mapped + 1]),
                   geom, prop, bind_ok, TRUE) :
             geom \in env.geoms \cup {IF ok THEN Screen ELSE NoRegion : ok \in env.ok},
             prop \in env.props, bind_ok \in env.ok }

\* CreateNotify for a child of the root; malloc returns the lowest free cell
create_notify(id) ==
    { add_win(Session, id, NULL, reply, damage_ok, a) :
        reply \in env.replies, damage_ok \in env.ok,
        a \in {c \in Cells : ~win[c].alloc /\ \A b \in Cells : ~win[b].alloc => c <= b} }

map_notify(id) ==
    { map_win_by_id(Session, id, geom, prop, bind_ok, TRUE) :
        geom \in env.geoms \cup {IF ok THEN Screen ELSE NoRegion : ok \in env.ok},
        prop \in env.props, bind_ok \in env.ok }

unmap_notify(id) ==
    { unmap_win(find_win_checked(Session, id), find_win(Session, id), FALSE) }

destroy_notify(id) ==
    IF "destroy" \notin env.events THEN {}
    ELSE { unmap_win(find_win_checked(Session, id), find_win(Session, id), TRUE) }

\* ConfigureNotify for a window other than the root
configure_notify(id) ==
    IF "restack" \notin env.events THEN {}
    ELSE { configure_win(Session, id, above, g) :
             above \in (env.ids \cup {NULL}) \ {id}, g \in env.geoms }

\* ConfigureNotify for the root
configure_notify_root ==
    IF "root" \notin env.events THEN {}
    ELSE { configure_root(Session, has_root_change, fails) :
             has_root_change \in BOOLEAN, fails \in env.fails }

circulate_notify(id) ==
    IF "restack" \notin env.events THEN {}
    ELSE { circulate_win(Session, id, on_top) : on_top \in BOOLEAN }

\* FocusIn or FocusOut, the X server reporting wid as the focused window
focus_change(wid) ==
    IF "focus" \notin env.events THEN {} ELSE { recheck_focus(Session, wid) }

damage_notify(id) ==
    IF "damage" \notin env.events \/ find_win(Session, id) = NULL THEN {}
    ELSE { repair_win(find_win_checked(Session, id), find_win(Session, id), parts) :
             parts \in env.parts }

\* tmout_unredir_callback: the unredirect timer, which does not repeat, goes
\* off
tmout_unredir_callback(s) ==
    queue_redraw([s EXCEPT !.tmout_unredir_hit = TRUE, !.unredir_timer = FALSE])

tmout_unredir == IF unredir_timer THEN { tmout_unredir_callback(Session) } ELSE {}

\* The idle watcher runs _draw_callback
draw_frame ==
    { draw_callback([Session EXCEPT !.buffer_age = age], fails, dt) :
        fails \in env.fails, dt \in 0..MaxElapsed, age \in env.ages }

ev_create_notify(id) == Running /\ \E s \in create_notify(id) : Outcome(s)
ev_map_notify(id) == Running /\ \E s \in map_notify(id) : Outcome(s)
ev_unmap_notify(id) == Running /\ \E s \in unmap_notify(id) : Outcome(s)
ev_destroy_notify(id) == Running /\ \E s \in destroy_notify(id) : Outcome(s)
ev_configure_notify(id) == Running /\ \E s \in configure_notify(id) : Outcome(s)
ev_configure_notify_root == Running /\ \E s \in configure_notify_root : Outcome(s)
ev_circulate_notify(id) == Running /\ \E s \in circulate_notify(id) : Outcome(s)
ev_focus(wid) == Running /\ \E s \in focus_change(wid) : Outcome(s)
ev_damage_notify(id) == Running /\ \E s \in damage_notify(id) : Outcome(s)
ev_tmout_unredir == Running /\ \E s \in tmout_unredir : Outcome(s)
draw == Running /\ \E s \in draw_frame : Outcome(s)

init_add ==
    /\ halted = "no" /\ tree.added < Len(tree.children)
    /\ \E s \in session_init_add : Finish(s)
    /\ tree' = [tree EXCEPT !.added = @ + 1]
    /\ UNCHANGED <<loop, ignore>>

init_map ==
    /\ halted = "no" /\ tree.added = Len(tree.children)
    /\ tree.mapped < Len(tree.children)
    /\ \E s \in session_init_map : Finish(s)
    /\ tree' = [tree EXCEPT !.mapped = @ + 1]
    /\ UNCHANGED <<loop, ignore>>

Next ==
    \/ init_add
    \/ init_map
    \/ \E id \in Ids : ev_create_notify(id)
    \/ \E id \in Ids : ev_map_notify(id)
    \/ \E id \in Ids : ev_unmap_notify(id)
    \/ \E id \in Ids : ev_destroy_notify(id)
    \/ \E id \in env.ids : ev_configure_notify(id)
    \/ ev_configure_notify_root
    \/ \E id \in env.ids : ev_circulate_notify(id)
    \/ \E wid \in Ids \cup {NULL} : ev_focus(wid)
    \/ \E id \in Ids : ev_damage_notify(id)
    \/ ev_tmout_unredir
    \/ draw

Spec == Init /\ [][Next]_vars

\* ----------------------------------------------- three windows restacked
\* A session that starts with three viewable children of the root, 1 at the
\* bottom and 3 on top, each with a geometry and with or without an opacity
\* property that makes it translucent.  Windows do not fade, unfocused
\* windows are as opaque as focused ones, and the screen stays redirected.
\* The events are ConfigureNotify and CirculateNotify for the three windows.
StackRuns == {
    <<[NoUnredir EXCEPT !.inactive_opacity = MaxOpacity, !.fade = FALSE],
      [Plain EXCEPT !.children = {<<1, 2, 3>>}, !.ids = Xids,
                    !.replies = {[ok |-> TRUE, input_only |-> FALSE,
                                  viewable |-> TRUE]},
                    !.geoms = {{1}, Screen}, !.props = {-1, 1},
                    !.events = {"restack"}]>>
}

InitStack == InitIn(StackRuns)

NextStack ==
    \/ init_add
    \/ init_map
    \/ \E id \in env.ids : ev_configure_notify(id)
    \/ \E id \in env.ids : ev_circulate_notify(id)
    \/ draw

SpecStack == InitStack /\ [][NextStack]_vars

\* ------------------------------------------------------ the event loop
\* Spec lets _draw_callback run between any two events, for the events whose
\* handlers are outside this model may queue a redraw at any time, and leaves
\* loop as session_run has set it.  SpecLoop follows the watchers: a frame is
\* drawn only by the callback of a watcher that is active.
\*
\* The runs of SpecLoop: the root is configured and windows are created,
\* mapped and unmapped; benchmark mode and the pacing of the frames are on or
\* off; the benchmark ends after MaxPaint frames.
MaxPaint == 2

LoopRuns == {
    <<[NoUnredir EXCEPT !.benchmark = b, !.sw_opti = p],
      [Plain EXCEPT !.events = {"root"}, !.ids = {1}]>> :
        b \in {0, MaxPaint}, p \in BOOLEAN
}

InitLoop == InitIn(LoopRuns)

\* The watchers as the handler that has left the session s leaves them
LoopOf(s) ==
    [ redraw_needed |-> s.redraw_needed, draw_idle |-> s.draw_idle,
      delayed_draw_timer |-> s.delayed_draw_timer, fade_timer |-> s.fade_timer,
      paint |-> s.paint, calls |-> s.calls, frames |-> s.frames ]

\* The outcome of a callback of the event loop, which leaves the session s
Handled(s) ==
    /\ Finish(s)
    /\ loop' = IF halted' = "no" THEN LoopOf(s) ELSE NoLoop
    /\ UNCHANGED <<tree, ignore>>

\* The frames that a callback can draw
Drawn(callback(_, _, _)) ==
    { callback([Session EXCEPT !.buffer_age = age], fails, dt) :
        fails \in env.fails, dt \in 0..MaxElapsed, age \in env.ages }

\* delayed_draw_callback, swopti_handle_timeout asking for a delay or for none
delayed_draw ==
    UNION { Drawn(LAMBDA s, fails, dt : delayed_draw_callback(s, fails, dt, late)) :
              late \in BOOLEAN }

loop_create_notify ==
    Running /\ \E id \in env.ids : \E s \in create_notify(id) : Handled(s)
loop_map_notify ==
    Running /\ \E id \in env.ids : \E s \in map_notify(id) : Handled(s)
loop_unmap_notify ==
    Running /\ \E id \in env.ids : \E s \in unmap_notify(id) : Handled(s)
loop_configure_notify_root ==
    Running /\ \E s \in configure_notify_root : Handled(s)
loop_fade_timer ==
    Running /\ loop.fade_timer /\ Handled(fade_timer_callback(Session))
loop_draw_idle ==
    /\ Running /\ loop.draw_idle /\ ~o.sw_opti
    /\ \E s \in Drawn(draw_idle_callback) : Handled(s)
loop_delayed_draw ==
    /\ Running /\ loop.draw_idle /\ o.sw_opti
    /\ \E s \in delayed_draw : Handled(s)
loop_delayed_draw_timer ==
    /\ Running /\ loop.delayed_draw_timer
    /\ \E s \in Drawn(delayed_draw_timer_callback) : Handled(s)

NextLoop ==
    \/ loop_create_notify
    \/ loop_map_notify
    \/ loop_unmap_notify
    \/ loop_configure_notify_root
    \/ loop_fade_timer
    \/ loop_draw_idle
    \/ loop_delayed_draw
    \/ loop_delayed_draw_timer

\* The values of loop
LoopStates ==
    [ redraw_needed : BOOLEAN, draw_idle : BOOLEAN, delayed_draw_timer : BOOLEAN,
      fade_timer : BOOLEAN, paint : 0..MaxPaint, calls : 0..MaxCalls,
      frames : BOOLEAN ]

\* ev_run invokes the callback of a watcher that is active.  The steps of the
\* three watchers that draw, as loop shows them: the callback of draw_idle
\* draws a frame or, with pacing, starts delayed_draw_timer instead; the
\* callback of delayed_draw_timer draws a frame.
draw_idle_invoked ==
    /\ Running /\ loop.draw_idle /\ ~o.sw_opti
    /\ \E l \in LoopStates : l.frames # loop.frames /\ loop' = l

delayed_draw_invoked ==
    /\ Running /\ loop.draw_idle /\ o.sw_opti
    /\ \E l \in LoopStates :
          /\ \/ l.frames # loop.frames
             \/ l.delayed_draw_timer /\ ~loop.delayed_draw_timer
          /\ loop' = l

delayed_draw_timer_invoked ==
    /\ Running /\ loop.delayed_draw_timer
    /\ \E l \in LoopStates : l.frames # loop.frames /\ loop' = l

\* The event loop runs the callback of a watcher that stays active, once the
\* events that have arrived are handled
SpecLoop ==
    /\ InitLoop /\ [][NextLoop]_vars
    /\ WF_loop(draw_idle_invoked) /\ WF_loop(delayed_draw_invoked)
    /\ WF_loop(delayed_draw_timer_invoked)

\* A requested redraw has a watcher that will draw it
Scheduled == loop.draw_idle \/ (o.sw_opti /\ loop.delayed_draw_timer)

\* A step in which _draw_callback has run to its end
FrameDrawn == halted' = "no" /\ loop'.frames # loop.frames

\* Calls of queue_redraw wait for their frame
Requested == halted = "no" /\ loop.calls > 0

\* C30: while the process runs, every call of queue_redraw is eventually
\* followed by a run of the draw callback, which takes all the calls made
\* before it into its one frame (the count of the waiting calls falls to
\* zero in a frame and in no other step); after the run redraw_needed is
\* false and draw_idle is stopped unless benchmark mode is on; and between
\* callbacks, redraw_needed implies that draw_idle or, with pacing,
\* delayed_draw_timer is active.
C30_RedrawNotLost ==
    /\ [](halted = "no" /\ loop.redraw_needed => Scheduled)
    /\ [][FrameDrawn => /\ ~loop'.redraw_needed
                        /\ loop'.calls = 0
                        /\ loop'.draw_idle <=> o.benchmark > 0]_vars
    /\ [][loop.calls > 0 /\ loop'.calls = 0 =>
             halted' # "no" \/ loop'.frames # loop.frames]_vars
    /\ Requested ~> ~Requested

\* Several calls of queue_redraw wait for one frame, in a session without
\* benchmark mode that has drawn a frame before
C30_Witness ==
    /\ halted = "no" /\ loop.calls = MaxCalls /\ loop.frames
    /\ o.benchmark = 0 /\ loop.redraw_needed

\* ------------------------------------------- the target opacity on its own
\* A session with one window, in any lifecycle state, with or without the
\* opacity property, focused or not, the active window or not, under any
\* setting of the options that win_calc_opacity_target reads.  A window is
\* viewable in MAPPING, MAPPED and FADING, and its opacity_prop is OPAQUE
\* when it has no opacity property.
InitOpacity ==
    /\ \E st \in WSTATE, hp \in BOOLEAN, op \in 0..MaxOpacity, f \in BOOLEAN :
          /\ ~hp => op = MaxOpacity
          /\ win = [a \in Addr |->
                      IF a = 1
                      THEN [win_def EXCEPT
                               !.alloc = TRUE, !.id = 1, !.state = st,
                               !.viewable = (st \in {"MAPPING", "MAPPED", "FADING"}),
                               !.has_opacity_prop = hp, !.opacity_prop = op,
                               !.focused = f]
                      ELSE win_def]
    /\ window_stack = 1
    /\ windows = [i \in Xids |-> IF i = 1 THEN 1 ELSE NULL]
    /\ active_win \in {NULL, 1}
    /\ redirected = FALSE
    /\ fade_time = -1
    /\ damage_ring = <<>>
    /\ damage = 0
    /\ added = <<>>
    /\ unredir_timer = FALSE
    /\ tmout_unredir_hit = FALSE
    /\ o \in { [Options EXCEPT !.inactive_opacity_override = ov,
                                !.wintype_opacity = wt,
                                !.active_opacity = ao, !.inactive_opacity = io] :
                  ov \in BOOLEAN, wt \in -1..MaxOpacity,
                  ao \in 1..MaxOpacity, io \in 0..(MaxOpacity - 1) }
    /\ env = Plain
    /\ tree = [children |-> <<>>, added |-> 0, mapped |-> 0]
    /\ loop = session_run(Options)
    /\ ignore = NoIgnore
    /\ halted = "no"

\* w->opacity_tgt = win_calc_opacity_target(ps, w)
calc_opacity_tgt ==
    \E w \in Addr : win[w].alloc /\ Outcome(set_opacity_tgt(Session, w))

SpecOpacity == InitOpacity /\ [][calc_opacity_tgt]_vars

\* The sessions that the handlers can leave from the present state
Calls ==
    IF ~Running THEN {}
    ELSE UNION ( {create_notify(id) : id \in Ids} \cup {map_notify(id) : id \in Ids}
                 \cup {unmap_notify(id) : id \in Ids}
                 \cup {destroy_notify(id) : id \in Ids}
                 \cup {configure_notify(id) : id \in Ids}
                 \cup {circulate_notify(id) : id \in Ids}
                 \cup {focus_change(wid) : wid \in Ids \cup {NULL}}
                 \cup {damage_notify(id) : id \in Ids}
                 \cup {configure_notify_root, draw_frame} )

\* ------------------------------------------------------------------------
\* The window stack and the id-index
\* ------------------------------------------------------------------------
\* The nodes of the window stack, from the top
Stack == Chain(win, window_stack)

\* The nodes of the stack that stand for the live window id
NodesOf(id) ==
    {i \in 1..Len(Stack) : win[Stack[i]].id = id /\ win[Stack[i]].state # "DESTROYING"}

\* C1: every id in the id-index has exactly one node in the window stack
\* that carries this id and is not DESTROYING.
C1_IndexedOnceInStack ==
    \A id \in Ids : windows[id] # NULL => Cardinality(NodesOf(id)) = 1

\* The window that DestroyNotify for id finds, when unmap_win neither returns
\* at once nor destroys it on the spot
Destroyable(id) ==
    /\ Running
    /\ windows[id] # NULL
    /\ win[windows[id]].state \notin {"UNMAPPED", "DESTROYING"}
    /\ ~win[windows[id]].input_only

\* No DESTROYING window, and no freed one, is in the id-index, and the
\* assertion of find_win holds whenever it is evaluated.
IndexIsLive ==
    /\ \A id \in Ids : windows[id] # NULL =>
          win[windows[id]].alloc /\ win[windows[id]].state # "DESTROYING"
    /\ \A s \in Calls : "find_win" \notin s.failed

Diagram ==
    { <<"UNMAPPED", "MAPPING">>, <<"MAPPING", "MAPPED">>, <<"MAPPED", "FADING">>,
      <<"FADING", "MAPPED">>, <<"MAPPED", "UNMAPPING">>,
      <<"UNMAPPING", "UNMAPPED">>, <<"DESTROYING", "freed">> }
    \cup { <<st, "DESTROYING">> : st \in WSTATE \ {"DESTROYING"} }

C4_UnmappedHasNoImage ==
    \A a \in Addr :
        win[a].alloc /\ win[a].state = "UNMAPPED"
            => /\ win[a].opacity = 0 /\ win[a].opacity_tgt = 0
               /\ ~win[a].win_image /\ ~win[a].shadow_image

\* The assertions  opacity_tgt == opacity  made for MAPPED and UNMAPPED windows
FadeAsserts == {"run_fade", "win_check_fade_finished", "win_skip_fading"}

Settled(a) == win[a].opacity = win[a].opacity_tgt

\* C5 as stated: a MAPPED window has opacity equal to opacity_tgt, and that
\* value is greater than 0; the assertions of run_fade,
\* win_check_fade_finished and win_skip_fading never fail.
C5_MappedIsSettledAndVisible ==
    /\ \A a \in Addr : win[a].alloc /\ win[a].state = "MAPPED"
                          => Settled(a) /\ win[a].opacity_tgt > 0
    /\ \A s \in Calls : s.failed \cap FadeAsserts = {}

\* C5, amended: a MAPPED window has opacity equal to opacity_tgt, and that
\* value is greater than 0 unless the window has the opacity property set
\* to 0; the assertions of run_fade, win_check_fade_finished and
\* win_skip_fading never fail.
C5_MappedIsSettled ==
    /\ \A a \in Addr : win[a].alloc /\ win[a].state = "MAPPED"
                          => /\ Settled(a)
                             /\ \/ win[a].opacity_tgt > 0
                                \/ win[a].has_opacity_prop /\ win[a].opacity_prop = 0
    /\ \A s \in Calls : s.failed \cap FadeAsserts = {}

\* A window is MAPPED and fully transparent because of its opacity property.
C5_Witness ==
    \E a \in Addr : /\ win[a].alloc /\ win[a].state = "MAPPED"
                    /\ win[a].opacity = 0 /\ win[a].has_opacity_prop

\* The sessions that the handlers of the events can leave
EventCalls ==
    IF ~Running THEN {}
    ELSE UNION ( {map_notify(id) : id \in Ids} \cup {unmap_notify(id) : id \in Ids}
                 \cup {destroy_notify(id) : id \in Ids}
                 \cup {focus_change(wid) : wid \in Ids \cup {NULL}} )

\* C6: when the handler of a map, unmap, destroy or focus event returns
\* while the screen is not redirected, no window is left MAPPING, FADING,
\* UNMAPPING or DESTROYING and every window has reached its target opacity.
C6_FadeSkippedWhenUnredirected ==
    \A s \in EventCalls :
        s.halted = "no" /\ ~s.redirected
            => \A a \in Addr :
                   s.win[a].alloc => /\ s.win[a].state \in {"MAPPED", "UNMAPPED"}
                                     /\ s.win[a].opacity = s.win[a].opacity_tgt

\* ------------------------------------------------------------------------
\* Frames
\* ------------------------------------------------------------------------
Max(x, y) == IF x > y THEN x ELSE y

Abs(x) == IF x < 0 THEN -x ELSE x

\* What C7 asks of the opacity new that a frame of steps steps leaves a window
\* that had opacity old and target tgt
FadedWithin(old, new, tgt, steps) ==
    /\ 0 <= new /\ new <= MaxOpacity
    /\ Abs(new - old) <= Max(o.fade_in_step, o.fade_out_step) * steps
    /\ new > old => tgt > old
    /\ new < old => tgt < old
    /\ old <= tgt => new <= tgt
    /\ old >= tgt => new >= tgt

\* C7 as stated: in every frame the opacity of every window stays within
\* [0, 1], changes by at most max(fade_in_step, fade_out_step) x steps, moves
\* towards opacity_tgt and does not cross it.
C7_FadeBoundedByStepsAlways ==
    \A s \in draw_frame :
        s.halted = "no" =>
            \A a \in Addr :
                win[a].alloc => FadedWithin(win[a].opacity, s.win[a].opacity,
                                            win[a].opacity_tgt, s.frame.steps)

\* C7, amended: the same, for the windows that should fade, in the frames
\* that do not stop the redirection of the screen.
C7_FadeBoundedBySteps ==
    \A s \in draw_frame :
        s.halted = "no" /\ ~(redirected /\ ~s.redirected) =>
            \A a \in Addr :
                win[a].alloc /\ win_should_fade(Session, a)
                    => FadedWithin(win[a].opacity, s.win[a].opacity,
                                   win[a].opacity_tgt, s.frame.steps)

\* A frame of at least one step is about to change the opacity of a window
\* that should fade, and to leave it short of its target.
C7_Witness ==
    \E s \in draw_frame : \E a \in Addr :
        /\ s.halted = "no" /\ s.frame.steps >= 1 /\ s.redirected
        /\ win[a].alloc /\ win_should_fade(Session, a)
        /\ s.win[a].alloc
        /\ s.win[a].opacity # win[a].opacity
        /\ s.win[a].opacity # s.win[a].opacity_tgt


\* The first call of paint_preprocess of a frame having left p1: this call,
\* and the call that _draw_callback makes again when the first has redirected
\* the screen.  For each, whether the screen was redirected before it and
\* the session s that it leaves.
PreprocessedAgain(p1, fails) ==
    {[was |-> redirected, s |-> p1]}
    \cup IF ~redirected /\ p1.redirected /\ p1.halted = "no"
         THEN {[was |-> TRUE,
                s |-> paint_preprocess([p1 EXCEPT !.tmout_unredir_hit = FALSE],
                                       fails, 0)]}
         ELSE {}

\* The calls of paint_preprocess of a frame
Preprocessed ==
    IF ~Running THEN {}
    ELSE UNION { PreprocessedAgain(paint_preprocess(Session, fails, dt), fails) :
                 fails \in env.fails, dt \in 0..MaxElapsed }

\* The opaque region of a window: its shape if it is painted and SOLID
OpaqueRegion(W) == IF W.to_paint /\ W.mode = "SOLID" THEN W.g \cap Screen ELSE {}

\* The union of the opaque regions of the windows above the i-th of stack c
OpaqueAbove(w, c, i) == UNION {OpaqueRegion(w[c[j]]) : j \in 1..(i - 1)}

\* C8 as stated: at the end of paint_preprocess every window of the stack
\* has reg_ignore_valid set and has as reg_ignore the union of the opaque
\* regions of the windows above it.
C8_RegIgnoreOfEveryWindow ==
    \A p \in Preprocessed :
        p.s.halted = "no" =>
            LET c == Chain(p.s.win, p.s.window_stack) IN
            \A i \in 1..Len(c) :
                /\ p.s.win[c[i]].reg_ignore_valid
                /\ p.s.win[c[i]].reg_ignore = OpaqueAbove(p.s.win, c, i)

\* C8, amended: at the end of a paint_preprocess that does not stop the
\* redirection of the screen every window of the stack has reg_ignore_valid
\* set, and every window that is painted has as reg_ignore the union of the
\* opaque regions of the windows above it.
C8_RegIgnoreOfPaintedWindows ==
    \A p \in Preprocessed :
        p.s.halted = "no" /\ ~(p.was /\ ~p.s.redirected) =>
            LET c == Chain(p.s.win, p.s.window_stack) IN
            \A i \in 1..Len(c) :
                /\ p.s.win[c[i]].reg_ignore_valid
                /\ p.s.win[c[i]].to_paint
                      => p.s.win[c[i]].reg_ignore = OpaqueAbove(p.s.win, c, i)

\* A preprocess is about to leave a painted window below a painted SOLID
\* window that covers the screen, with the screen as its reg_ignore.
C8_Witness ==
    \E p \in Preprocessed :
        /\ p.s.halted = "no" /\ p.s.redirected
        /\ LET c == Chain(p.s.win, p.s.window_stack) IN
           \E i \in 1..Len(c) : /\ p.s.win[c[i]].to_paint
                                /\ p.s.win[c[i]].reg_ignore = Screen
                                /\ OpaqueAbove(p.s.win, c, i) = Screen

\* C9: a frame that leaves the screen unredirected after its preprocess
\* does not paint, and no frame paints when stoppaint_force is ON.
C9_NoPaintWhenUnredirected ==
    \A s \in draw_frame :
        s.halted = "no" /\ (~s.redirected \/ o.stoppaint_force = "ON")
            => ~s.frame.paint

\* A frame is about to leave the screen unredirected with a window in its
\* paint list, and not to paint it.
C9_Witness ==
    \E s \in draw_frame :
        s.halted = "no" /\ ~s.redirected /\ s.frame.t # <<>> /\ ~s.frame.paint

\* ------------------------------------------------------------------------
\* Destroyed windows
\* ------------------------------------------------------------------------
\* The win at a is freed by the call that leaves session s
FreedBy(s, a) == win[a].alloc /\ ~s.win[a].alloc

\* C10: while the screen is redirected, a call frees a win only if it was
\* DESTROYING, or if it is the destruction of an UNMAPPED or InputOnly
\* window; the win is then unlinked from the stack, its opacity is 0 and
\* its images are released; and no call releases the image of a window that
\* stays DESTROYING.
C10_FreedWhenFadedOut ==
    redirected =>
        \A s \in Calls : \A a \in Addr :
            s.halted = "no" =>
                /\ FreedBy(s, a) =>
                      /\ \/ win[a].state = "DESTROYING"
                         \/ /\ win[a].state = "UNMAPPED" \/ win[a].input_only
                            /\ s \in destroy_notify(win[a].id)
                      /\ ~InChain(s.win, s.window_stack, a)
                      /\ s.win[a].opacity = 0
                      /\ ~s.win[a].win_image /\ ~s.win[a].shadow_image
                /\ /\ win[a].alloc /\ win[a].state = "DESTROYING"
                   /\ s.win[a].alloc /\ s.win[a].state = "DESTROYING"
                   => (win[a].win_image => s.win[a].win_image)

\* ------------------------------------------------------------------------
\* A window created again while its predecessor fades out
\* ------------------------------------------------------------------------
\* The nodes of the stack that are DESTROYING and carry the id
OldNodes(id) ==
    {d \in Addr : /\ win[d].alloc /\ win[d].id = id /\ win[d].state = "DESTROYING"
                  /\ InChain(win, window_stack, d)}

\* The fields of a win that are its own: everything but its links and its
\* cached reg_ignore
OwnFields(W) ==
    [W EXCEPT !.next = NULL, !.prev = HeadSlot, !.reg_ignore = NoRegion,
              !.reg_ignore_valid = FALSE]

\* The sessions that the handlers of the events on the window id can leave
CallsOn(id) ==
    IF ~Running THEN {}
    ELSE map_notify(id) \cup unmap_notify(id) \cup destroy_notify(id)
         \cup configure_notify(id) \cup circulate_notify(id)

\* The stack c without the nodes that session s has freed
Remaining(c, s) == SelectSeq(c, LAMBDA n : s.win[n].alloc)

\* C11: CreateNotify for an id that has a DESTROYING node d in the stack and
\* no window in the id-index makes a fresh win, UNMAPPED, with opacity 0 and
\* in the id-index, and leaves d as it is; the events on an id that has both
\* a window f in the id-index and a DESTROYING node d leave d as it is; and
\* a call that frees d returns, leaves f in the id-index and leaves in the
\* stack, in their order, the nodes that it has not freed.
C11_FreshNodeIndependent ==
    \A id \in Ids : \A d \in OldNodes(id) :
        /\ windows[id] = NULL =>
              \A s \in create_notify(id) :
                  s.halted = "no" /\ s.windows[id] # NULL =>
                      /\ s.windows[id] # d
                      /\ s.win[s.windows[id]].alloc
                      /\ s.win[s.windows[id]].state = "UNMAPPED"
                      /\ s.win[s.windows[id]].opacity = 0
                      /\ InChain(s.win, s.window_stack, s.windows[id])
                      /\ OwnFields(s.win[d]) = OwnFields(win[d])
        /\ windows[id] # NULL =>
              /\ windows[id] # d
              /\ \A s \in CallsOn(id) :
                     s.halted = "no" => OwnFields(s.win[d]) = OwnFields(win[d])
              /\ \A s \in Calls :
                     FreedBy(s, d) =>
                         /\ s.halted = "no"
                         /\ s.windows[id] = windows[id]
                         /\ s.win[windows[id]].alloc
                         /\ ~Cyclic(s.win, s.window_stack)
                         /\ Chain(s.win, s.window_stack) = Remaining(Stack, s)

\* ------------------------------------------------------------------------
\* The place of a new window in the stack
\* ------------------------------------------------------------------------
\* The calls of add_win that can be made in the present state: the window
\* id, the argument prev and the session s that the call leaves
AddWinCalls ==
    IF halted # "no" THEN {}
    ELSE IF tree.added < Len(tree.children)
    THEN { [id |-> tree.children[tree.added + 1],
            prev |-> IF tree.added > 0 THEN tree.children[tree.added] ELSE NULL,
            s |-> s] : s \in session_init_add }
    ELSE IF ~Started THEN {}
    ELSE UNION { {[id |-> id, prev |-> NULL, s |-> s] : s \in create_notify(id)} :
                 id \in Ids }

\* The call c has added a window
Added(c) == c.s.halted = "no" /\ windows[c.id] = NULL /\ c.s.windows[c.id] # NULL

\* In the stack that call c leaves, the new window is immediately above the
\* window n
AddedAbove(c, n) ==
    LET ch == Chain(c.s.win, c.s.window_stack) IN
    \E i \in 1..(Len(ch) - 1) : ch[i] = c.s.windows[c.id] /\ ch[i + 1] = n

\* The call c has left the other windows of the stack in their order
AddedAmong(c) ==
    SelectSeq(Chain(c.s.win, c.s.window_stack), LAMBDA n : n # c.s.windows[c.id])
        = Stack

\* C12 as stated: an add_win(id, prev) that adds a window puts it
\* immediately above the window prev if prev is not 0, and at the bottom of
\* the stack if prev is 0.
C12_AddWinAbovePrevOrAtBottom ==
    \A c \in AddWinCalls :
        Added(c) =>
            /\ AddedAmong(c)
            /\ c.prev # NULL => AddedAbove(c, windows[c.prev])
            /\ c.prev = NULL =>
                  LET ch == Chain(c.s.win, c.s.window_stack) IN
                  ch[Len(ch)] = c.s.windows[c.id]

\* C12, amended: an add_win(id, prev) that adds a window links it in
\* immediately above the window prev if prev is not 0, at the slot that the
\* back-link of prev designates, and at the top of the stack if prev is 0:
\* it is then ps->window_stack, and the window that was the topmost is its
\* next.
C12_AddWinAbovePrevOrOnTop ==
    \A c \in AddWinCalls :
        Added(c) =>
            /\ c.prev # NULL =>
                  /\ c.s.win[c.s.windows[c.id]].next = windows[c.prev]
                  /\ Deref(c.s, win[windows[c.prev]].prev) = c.s.windows[c.id]
                  /\ AddedAbove(c, windows[c.prev])
            /\ c.prev = NULL =>
                  /\ c.s.window_stack = c.s.windows[c.id]
                  /\ c.s.win[c.s.windows[c.id]].next = window_stack

\* A CreateNotify is about to add a window to a stack that is not empty.
C12_Witness ==
    \E c \in AddWinCalls : Added(c) /\ c.prev = NULL /\ window_stack # NULL

\* ------------------------------------------------------------------ C13
\* The calls of restack_win that a ConfigureNotify can make: the window w of
\* the index is to go above the sibling with the id above.
RestackCalls ==
    IF "restack" \notin env.events \/ ~Running THEN {}
    ELSE { [w |-> windows[id], above |-> a, s |-> restack_win(Session, windows[id], a)] :
             id \in {i \in Ids : windows[i] # NULL}, a \in Ids \cup {NULL} }

\* No window of the stack that is not being destroyed has the id a
NotInStack(a) ==
    /\ ~Cyclic(win, window_stack)
    /\ \A i \in 1..Len(Stack) :
          ~(win[Stack[i]].id = a /\ win[Stack[i]].state # "DESTROYING")

\* The call has left the order of the stack and the damage ring as they were
SameStackAndDamage(c) ==
    /\ Chain(c.s.win, c.s.window_stack) = Stack
    /\ c.s.damage_ring = damage_ring
    /\ c.s.damage = damage

RestackedAgain(c) == restack_win(c.s, c.w, c.above)

\* C14: when restack_win(w, a), a the id of a sibling of w or 0, has
\* returned, a second restack_win(w, a) returns and leaves the stack, every
\* field of every window (reg_ignore and reg_ignore_valid among them) and the
\* damage ring as the first call left them.
C14_RestackTwiceIsRestackOnce ==
    \A c \in RestackCalls :
        (c.above # win[c.w].id /\ c.s.halted = "no") =>
            /\ RestackedAgain(c).halted = "no"
            /\ RestackedAgain(c).window_stack = c.s.window_stack
            /\ RestackedAgain(c).win = c.s.win
            /\ RestackedAgain(c).damage_ring = c.s.damage_ring
            /\ RestackedAgain(c).damage = c.s.damage

\* ------------------------------------------------------------------ C15
\* The calls of add_win that a CreateNotify can make, with the answers of the
\* X server
AddWinTried ==
    IF ~Running THEN {}
    ELSE { [id |-> id, reply |-> reply, damage_ok |-> damage_ok,
            s |-> add_win(Session, id, NULL, reply, damage_ok, a)] :
             id \in Ids, reply \in env.replies, damage_ok \in env.ok,
             a \in {c \in Cells : ~win[c].alloc /\ \A b \in Cells : ~win[b].alloc => c <= b} }

\* The id is in the index already or is that of the overlay, the attributes
\* of the window cannot be had or say that it is unviewable, or its damage
\* object cannot be created
Rejected(c) ==
    \/ find_win(Session, c.id) # NULL
    \/ c.id = env.overlay
    \/ ~c.reply.ok
    \/ ~c.reply.input_only /\ ~c.damage_ok

\* C15: an add_win for an id that is in the index or is that of the overlay,
\* for a window whose attributes cannot be had or that is unviewable, or
\* whose damage object cannot be created, returns with the stack, the index
\* and every field of every window as they were.
C15_RejectedAddWinIsNoOp ==
    \A c \in AddWinTried :
        Rejected(c) =>
            /\ c.s.halted = "no"
            /\ c.s.window_stack = window_stack
            /\ c.s.windows = windows
            /\ c.s.win = win

\* Both a window whose damage object cannot be created and a window that is
\* in the index already are added, the stack not being empty
C15_Witness ==
    /\ window_stack # NULL
    /\ \E c \in AddWinTried :
          find_win(Session, c.id) = NULL /\ c.reply.ok /\ ~c.reply.input_only
          /\ ~c.damage_ok
    /\ \E c \in AddWinTried : find_win(Session, c.id) # NULL

\* ------------------------------------------------------------------ C16
\* The first that applies of the six rules of the target opacity
FirstApplicable(w) ==
    IF o.inactive_opacity_override /\ ~win[w].focused THEN o.inactive_opacity
    ELSE IF win[w].has_opacity_prop THEN win[w].opacity_prop
    ELSE IF o.wintype_opacity # -1 THEN o.wintype_opacity
    ELSE IF win[w].viewable /\ active_win = w THEN o.active_opacity
    ELSE IF ~win[w].focused THEN o.inactive_opacity
    ELSE MaxOpacity

Unpaintable(W) ==
    \/ ~W.ever_damaged
    \/ W.g \cap Screen = {}
    \/ W.state = "UNMAPPED"
    \/ W.opacity * MAX_ALPHA < MaxOpacity
    \/ W.paint_excluded
    \/ W.image_error

\* The windows of the stack of the session s
StackOf(s) ==
    { Chain(s.win, s.window_stack)[i] : i \in 1..Len(Chain(s.win, s.window_stack)) }

\* C17: when a paint_preprocess that began and ended with the screen
\* redirected has returned, no window of the stack that was never damaged
\* since its last map, is off the screen, is UNMAPPED, has opacity x 255 < 1,
\* is excluded by the rules or has the IMAGE_ERROR flag has to_paint, and the
\* paint list holds exactly the windows that have to_paint.
C17_ToPaintAfterPreprocess ==
    \A p \in Preprocessed :
        (p.s.halted = "no" /\ p.was /\ p.s.redirected) =>
            /\ \A w \in StackOf(p.s) : Unpaintable(p.s.win[w]) => ~p.s.win[w].to_paint
            /\ { p.s.frame.t[i] : i \in 1..Len(p.s.frame.t) }
                   = { w \in StackOf(p.s) : p.s.win[w].to_paint }

\* ---------------------------------------------------------------------
\* C18: the delay of unredirection

\* The frames that _draw_callback can draw in the current state of a run
\* that unredirects after a delay
DelayedFrames ==
    IF Running /\ o.unredir_if_possible_delay > 0
    THEN { s \in draw_frame : s.halted = "no" }
    ELSE {}

\* What a frame does to a redirected screen under a delay: it unredirects
\* only when the timer has gone off and the screen can be unredirected;
\* when the screen cannot be unredirected, it stops the timer and the screen
\* stays redirected; when it can and the timer is running, the timer is left
\* running and the screen stays redirected
DelayedFrameRight(s) ==
    /\ ~s.redirected => tmout_unredir_hit /\ s.frame.unredir_possible
    /\ ~s.frame.unredir_possible =>
           s.redirected /\ ~s.unredir_timer /\ s.frame.timer = "stopped"
    /\ s.frame.unredir_possible /\ unredir_timer =>
           s.redirected /\ s.unredir_timer /\ s.frame.timer = "left"

\* C18: with unredir_if_possible_delay = d > 0, redir_stop runs only in a
\* frame that follows the firing of the unredirect timer and in whose
\* preprocess the screen can still be unredirected; the timer fires only
\* after a frame has started it; when the screen can no longer be
\* unredirected the timer is stopped and the screen stays redirected; a
\* running timer is not restarted while the screen can be unredirected.
C18_UnredirectAfterDelay ==
    /\ [](redirected => \A s \in DelayedFrames : DelayedFrameRight(s))
    /\ [][(tmout_unredir_hit' /\ ~tmout_unredir_hit)
             => (unredir_timer /\ ~unredir_timer')]_vars
    /\ [][(unredir_timer' /\ ~unredir_timer)
             => (redirected /\ redirected' /\ ~tmout_unredir_hit)]_vars

\* The timer has gone off and the next frame unredirects the screen
C18_Witness ==
    /\ redirected /\ tmout_unredir_hit
    /\ \E s \in DelayedFrames : ~s.redirected

\* ---------------------------------------------------------------------
\* C19: the damage of a frame under buffer ages

\* The frames that _draw_callback can draw in the current state and whose
\* paint pass finds a damage ring
PaintedFrames ==
    IF Running
    THEN { s \in draw_frame :
             s.halted = "no" /\ s.frame.paint /\ s.frame.added # <<>> }
    ELSE {}

\* The damage added since the buffer of the frame was presented
Spanned(s) == UNION { s.frame.added[i] : i \in 1..s.buffer_age }

\* C19: the region that a frame paints under a buffer age within the ring is
\* the damage, on the screen, added while each of the regions that the age
\* spans was the current one (with three regions and age 3, the damage of the
\* last three frames); after the paint the region that becomes the
\* current one is cleared, so that the following frame no longer sees the
\* oldest of them.
C19_BufferAgeDamage ==
    \A s \in PaintedFrames :
        /\ s.buffer_age \in 1..Len(s.frame.added) =>
               s.frame.region = Spanned(s)
        /\ s.damage_ring[s.damage] = {}
        /\ Len(s.damage_ring) = Len(s.frame.added)

\* A frame with buffer age 3 on a ring of three regions, each of which holds
\* damage of its own
C19_Witness ==
    \E s \in PaintedFrames :
        /\ s.buffer_age = 3 /\ Len(s.frame.added) = 3
        /\ s.frame.added[1] = {1} /\ s.frame.added[2] = {2}
        /\ s.frame.added[3] # {}
        /\ s.frame.region = Screen

\* ---------------------------------------------------------------------
\* C20: redir_start

\* The calls of redir_start that the unredirected session can make, one for
\* each set of windows whose image cannot be bound
RedirStarts ==
    IF Running /\ ~redirected
    THEN { [fails |-> fails, s |-> redir_start(Session, fails)] :
             fails \in env.fails }
    ELSE {}

\* The windows that initialize_backend binds: those of the index that are
\* viewable
ToBind == { w \in Addr : \E id \in Ids : windows[id] = w /\ win[w].viewable }

\* The ring that redir_start leaves: max_buffer_age regions, empty but for
\* the current one, which holds the screen
FreshRing(s) ==
    /\ Len(s.damage_ring) = env.max_buffer_age
    /\ s.damage \in 1..Len(s.damage_ring)
    /\ \A i \in 1..Len(s.damage_ring) :
           s.damage_ring[i] = IF i = s.damage THEN Screen ELSE {}

\* What redir_start has done to window w: an image is bound if w is to be
\* bound and its image can be; IMAGE_ERROR is set if it is to be bound and
\* its image cannot be; nothing else has changed
BoundRight(c, w) ==
    LET can == win[w].id \notin c.fails /\ ~win[w].input_only IN
    IF w \in ToBind
    THEN c.s.win[w] = [win[w] EXCEPT
                          !.win_image = can,
                          !.shadow_image = IF can /\ win[w].shadow THEN TRUE ELSE @,
                          !.image_error = IF can THEN @ ELSE TRUE]
    ELSE c.s.win[w] = win[w]

\* C20: redir_start does not fail when the backend's init succeeds; it sets
\* redirected, allocates a ring of max_buffer_age regions that are empty but
\* for the current one, which holds the whole screen, queues a redraw, and
\* tries to bind an image for every viewable window of the index, a failure
\* setting only IMAGE_ERROR of the window that it is about.
C20_RedirStart ==
    \A c \in RedirStarts :
        /\ c.s.halted = "no"
        /\ c.s.redirected /\ c.s.queued
        /\ FreshRing(c.s)
        /\ \A w \in Addr : BoundRight(c, w)

\* redir_start with two viewable windows, the image of one of which cannot
\* be bound while the image of the other can
C20_Witness ==
    \E c \in RedirStarts : \E w1, w2 \in ToBind :
        /\ win[w1].id \in c.fails /\ win[w2].id \notin c.fails
        /\ c.s.win[w1].image_error /\ ~c.s.win[w1].win_image
        /\ c.s.win[w2].win_image /\ c.s.redirected

\* ---------------------------------------------------------------------
\* C21: a window whose image cannot be bound

\* The calls of map_win that MapNotify for id can make on the redirected
\* screen when the window is unmapped or fading out and the X server answers
\* GetGeometry; ok is the outcome of binding the image
RemapCalls ==
    IF ~Running \/ ~redirected THEN {}
    ELSE { [w |-> windows[id], ok |-> ok,
            s |-> map_win_by_id(Session, id, geom, prop, ok, TRUE)] :
             id \in {i \in Ids : /\ windows[i] # NULL
                                 /\ win[windows[i]].alloc
                                 /\ ~win[windows[i]].input_only
                                 /\ win[windows[i]].state \in {"UNMAPPED", "UNMAPPING"}},
             geom \in env.geoms, prop \in env.props, ok \in env.ok }

\* The windows that have the IMAGE_ERROR flag
Flagged == { w \in Addr : win[w].alloc /\ win[w].image_error }

\* The paint list of the session s
PaintList(s) == { s.frame.t[i] : i \in 1..Len(s.frame.t) }

\* C21: on the redirected screen map_win sets IMAGE_ERROR exactly when the
\* bind fails, whatever happened at the map before; a window that has the
\* flag when a preprocess begins has no to_paint and is not in the paint list
\* after it, while every other window of the stack that is paintable has
\* to_paint; and the flag is cleared only when the window becomes UNMAPPED
\* or is mapped again out of its unmap fade.
C21_ImageErrorNotPainted ==
    /\ [](\A c \in RemapCalls : c.s.halted = "no" =>
             /\ c.s.win[c.w].image_error = ~c.ok
             /\ c.s.win[c.w].win_image = c.ok)
    /\ [](redirected => \A p \in Preprocessed : p.s.halted = "no" /\ p.s.redirected =>
             /\ \A w \in Flagged : p.s.win[w].alloc =>
                    ~p.s.win[w].to_paint /\ w \notin PaintList(p.s)
             /\ \A v \in StackOf(p.s) \ Flagged :
                    ~Unpaintable([p.s.win[v] EXCEPT !.image_error = FALSE])
                        => p.s.win[v].to_paint)
    /\ [][\A w \in Flagged : win'[w].alloc /\ ~win'[w].image_error =>
             \/ win'[w].state = "UNMAPPED"
             \/ win[w].state = "UNMAPPING" /\ win'[w].state \in {"MAPPING", "MAPPED"}]_vars

\* A window is flagged while another paintable window is painted
C21_Witness ==
    /\ redirected
    /\ \E p \in Preprocessed : \E w \in Flagged : \E v \in StackOf(p.s) \ Flagged :
          /\ p.s.halted = "no" /\ p.s.redirected
          /\ win[w].state \in {"MAPPING", "MAPPED"} /\ win[w].ever_damaged
          /\ ~p.s.win[w].to_paint /\ p.s.win[v].to_paint

\* ---------------------------------------------------------------------
\* C22: map, unmap, map

\* The session as the next handler finds it
Between(s) == [s EXCEPT !.frame = NoFrame, !.queued = FALSE]

\* n frames, dt milliseconds apart, in which every image can be bound
RECURSIVE Frames(_, _, _)
Frames(s, n, dt) ==
    IF n = 0 \/ s.halted # "no" THEN s
    ELSE Frames(draw_callback([Between(s) EXCEPT !.buffer_age = 1], {}, dt),
                n - 1, dt)

\* Frames enough for any fade to end
Settle == MaxOpacity + 1

\* Most frames between two events of the sequence
MaxBetween == 2

\* The windows on which the sequence can begin: unmapped windows of the
\* id-index, on a screen that stays redirected, in a run without other
\* events than CreateNotify, MapNotify and UnmapNotify
Remappable ==
    IF Running /\ redirected /\ ~o.unredir_if_possible /\ env.events = {}
    THEN { id \in Ids : /\ windows[id] # NULL
                        /\ win[windows[id]].alloc
                        /\ ~win[windows[id]].input_only
                        /\ win[windows[id]].state = "UNMAPPED" }
    ELSE {}

\* The sequence on window id: map, k1 frames, unmap, k2 frames, map, and
\* frames until the fade has ended.
RemapMapped(id, prop) == map_win_by_id(Session, id, Screen, prop, TRUE, TRUE)

RemapUnmapped(id, prop, k1, k2) ==
    Between(Frames(unmap_win(Between(Frames(RemapMapped(id, prop), k1, 1)),
                             windows[id], FALSE),
                   k2, 1))

RemapRemapped(id, prop, k1, k2) ==
    map_win_by_id(RemapUnmapped(id, prop, k1, k2), id, Screen, prop, TRUE, TRUE)

\* first is the session in which the fade of the first map has ended,
\* unmapped the session after the k2 frames, last the one in which the fade
\* of the second map has ended.
Remap(id, prop, k1, k2) ==
    [ w |-> windows[id],
      first |-> Frames(RemapMapped(id, prop), Settle, MaxElapsed),
      mapped |-> RemapMapped(id, prop),
      unmapped |-> RemapUnmapped(id, prop, k1, k2),
      remapped |-> RemapRemapped(id, prop, k1, k2),
      last |-> Frames(RemapRemapped(id, prop, k1, k2), Settle, MaxElapsed) ]

Remaps ==
    { Remap(id, prop, k1, k2) :
        id \in Remappable, prop \in env.props, k1 \in 0..MaxBetween,
        k2 \in 0..MaxBetween }

\* C22: on the redirected screen the sequence map, unmap, map on a window,
\* with frames in between, ends in MAPPED with the opacity in which the
\* first map alone ends; each map binds the image once, and the image of
\* the first map has been released when the second map binds (no assertion
\* of win_bind_image or win_release_image fails).
C22_RemapSameOpacity ==
    \A r \in Remaps :
        /\ r.last.halted = "no" /\ r.last.failed = {} /\ ~r.last.ub
        /\ r.first.win[r.w].state = "MAPPED" /\ r.last.win[r.w].state = "MAPPED"
        /\ r.last.win[r.w].opacity = r.first.win[r.w].opacity
        /\ r.mapped.win[r.w].win_image /\ r.remapped.win[r.w].win_image
        /\ r.unmapped.win[r.w].state = "UNMAPPED" => ~r.unmapped.win[r.w].win_image

\* The second map arrives while the unmap fade is still running
C22_Witness ==
    \E r \in Remaps :
        /\ r.unmapped.win[r.w].state = "UNMAPPING" /\ r.unmapped.win[r.w].win_image
        /\ r.last.win[r.w].state = "MAPPED" /\ r.last.win[r.w].opacity > 0
        /\ r.last.failed = {}

\* ---------------------------------------------------------------------
\* C23: the fade-in of scenario S1, in units of fade_in_step and fade_delta

\* The windows on which the scenario can begin: unmapped windows of the
\* id-index, on a screen that stays redirected, when no fade is running, the
\* target opacity of a mapped window is 1.0 and fade_in_step is one unit
FadeInStart ==
    IF /\ Running /\ redirected /\ ~o.unredir_if_possible /\ env.events = {}
       /\ fade_time = -1 /\ o.fade /\ o.fade_in_step = 1
       /\ o.inactive_opacity = MaxOpacity /\ o.active_opacity = MaxOpacity
    THEN { id \in Ids : /\ windows[id] # NULL
                        /\ win[windows[id]].alloc
                        /\ ~win[windows[id]].input_only
                        /\ win[windows[id]].state = "UNMAPPED" }
    ELSE {}

\* MapNotify and the first preprocess, dt0 milliseconds later
FadeInFirst(id, dt0) ==
    Frames(map_win_by_id(Session, id, Screen, -1, TRUE, TRUE), 1, dt0)

\* j more preprocesses, fade_delta apart
FadeInTicks(id, dt0, j) == Frames(FadeInFirst(id, dt0), j, o.fade_delta)

\* One more preprocess instead, j times fade_delta later
FadeInJump(id, dt0, j) == Frames(FadeInFirst(id, dt0), 1, j * o.fade_delta)

\* After the j preprocesses, one that is less than fade_delta later
FadeInEarly(id, dt0, j) == Frames(FadeInTicks(id, dt0, j), 1, o.fade_delta - 1)

\* After the j preprocesses, the preprocess at which the time of the whole
\* fade has passed
FadeInLast(id, dt0, j) ==
    Frames(FadeInTicks(id, dt0, j), 1, (MaxOpacity - j) * o.fade_delta)

\* The preprocess after it
FadeInAfter(id, dt0, j) == Frames(FadeInLast(id, dt0, j), 1, o.fade_delta)

\* The window is fading in, at opacity op, in session s
FadingInAt(s, w, op) ==
    /\ s.halted = "no" /\ s.win[w].opacity = op
    /\ s.win[w].state = "MAPPING" /\ s.frame.fade_running

\* The readings of the scenario up to the last preprocess: the opacity is
\* 0 after the first preprocess and one step more after each fade_delta,
\* whether the time passes in one preprocess or in several, and the window
\* is fading until the whole time has passed
FadeInReadings(id, dt0, j) ==
    /\ FadingInAt(FadeInFirst(id, dt0), windows[id], 0)
    /\ FadingInAt(FadeInTicks(id, dt0, j), windows[id], j)
    /\ FadingInAt(FadeInJump(id, dt0, j), windows[id], j)
    /\ FadingInAt(FadeInEarly(id, dt0, j), windows[id], j)
    /\ FadeInLast(id, dt0, j).win[windows[id]].opacity = MaxOpacity
    /\ FadeInLast(id, dt0, j).win[windows[id]].state = "MAPPED"
    /\ FadeInAfter(id, dt0, j).win[windows[id]].opacity = MaxOpacity
    /\ FadeInAfter(id, dt0, j).win[windows[id]].state = "MAPPED"
    /\ ~FadeInAfter(id, dt0, j).frame.fade_running

\* C23 as stated: the preprocess at which the whole time of the fade has
\* passed leaves opacity 1.0 and state MAPPED and reports
\* fade_still_running = false.
C23_FadeInScenario ==
    \A id \in FadeInStart : \A dt0 \in 0..MaxElapsed : \A j \in 0..(MaxOpacity - 1) :
        /\ FadeInReadings(id, dt0, j)
        /\ ~FadeInLast(id, dt0, j).frame.fade_running

\* C23 amended: that preprocess leaves opacity 1.0 and state MAPPED but
\* still reports fade_still_running = true; the preprocess after it reports
\* false.
C23_FadeInScenarioOneMore ==
    \A id \in FadeInStart : \A dt0 \in 0..MaxElapsed : \A j \in 0..(MaxOpacity - 1) :
        /\ FadeInReadings(id, dt0, j)
        /\ FadeInLast(id, dt0, j).frame.fade_running

\* The scenario runs: one step short of the target the window is fading,
\* and at the last preprocess it is MAPPED
C23_Witness ==
    \E id \in FadeInStart :
        /\ FadingInAt(FadeInJump(id, 1, MaxOpacity - 1), windows[id], MaxOpacity - 1)
        /\ FadeInLast(id, 1, MaxOpacity - 1).win[windows[id]].state = "MAPPED"
        /\ FadeInLast(id, 1, MaxOpacity - 1).frame.fade_running

\* ---------------------------------------------------------------------
\* C24: scenario S3, unredirection after a delay

\* The pairs of windows on which the scenario can begin: a (0x20) and b
\* (0x21), unmapped windows of the id-index, b above a, every window of the
\* stack UNMAPPED, on a redirected screen whose timer is not running, with
\* a delay of unredirection and no fading
DelayStart ==
    IF /\ Running /\ redirected /\ ~unredir_timer /\ ~tmout_unredir_hit
       /\ o.unredir_if_possible /\ o.unredir_if_possible_delay > 0
       /\ o.redirected_force = "UNSET" /\ ~o.fade
       /\ \A i \in 1..Len(Stack) : /\ win[Stack[i]].alloc
                                    /\ win[Stack[i]].state = "UNMAPPED"
                                    /\ ~win[Stack[i]].input_only
    THEN { p \in Ids \X Ids :
             \E i, j \in 1..Len(Stack) :
                 /\ j < i /\ windows[p[1]] = Stack[i] /\ windows[p[2]] = Stack[j] }
    ELSE {}

\* One frame, in which every image can be bound
Frame(s) == Frames(s, 1, 1)

\* The window id is mapped with geometry g and damaged, and a frame is drawn
MappedAndDrawn(s, id, g) ==
    Frame(repair_win(Between(map_win_by_id(Between(s), id, g, -1, TRUE, TRUE)),
                     s.windows[id], Screen))

\* t = 0: 0x20 is mapped, full-screen and solid
DelayMapped(p) == MappedAndDrawn(Session, p[1], Screen)

\* t = 100: 0x21 is mapped, not full-screen
DelayCovered(p) == MappedAndDrawn(DelayMapped(p), p[2], {1})

\* t = 150: 0x21 is unmapped
DelayUncovered(p) ==
    Frame(unmap_win(Between(DelayCovered(p)), windows[p[2]], FALSE))

\* t = 350: the timer goes off, and the frame that it has queued is drawn
DelayFired(p) == Frame(tmout_unredir_callback(Between(DelayUncovered(p))))

\* C24: the preprocess after the map of the full-screen solid 0x20 finds
\* that the screen can be unredirected and starts the timer; the preprocess
\* after the map of 0x21 finds that it cannot and stops the timer, the screen
\* staying redirected; the preprocess after the unmap of 0x21 starts the
\* timer again; and when the timer has gone off the preprocess finds that
\* the screen can be unredirected and redir_stop runs.
C24_DelayScenario ==
    \A p \in DelayStart :
        /\ DelayMapped(p).frame.unredir_possible
        /\ DelayMapped(p).frame.timer = "started" /\ DelayMapped(p).unredir_timer
        /\ DelayMapped(p).redirected
        /\ ~DelayCovered(p).frame.unredir_possible
        /\ DelayCovered(p).frame.timer = "stopped" /\ ~DelayCovered(p).unredir_timer
        /\ DelayCovered(p).redirected
        /\ DelayUncovered(p).frame.unredir_possible
        /\ DelayUncovered(p).frame.timer = "started" /\ DelayUncovered(p).unredir_timer
        /\ DelayUncovered(p).redirected /\ ~DelayUncovered(p).tmout_unredir_hit
        /\ DelayFired(p).frame.unredir_possible
        /\ ~DelayFired(p).redirected /\ DelayFired(p).damage_ring = <<>>
        /\ DelayFired(p).halted = "no" /\ DelayFired(p).failed = {}

\* The scenario runs to its end
C24_Witness ==
    \E p \in DelayStart :
        /\ DelayCovered(p).win[windows[p[2]]].to_paint
        /\ DelayCovered(p).win[windows[p[1]]].to_paint
        /\ DelayUncovered(p).win[windows[p[2]]].state = "UNMAPPED"
        /\ ~DelayFired(p).redirected

\* ---------------------------------------------------------------------
\* C25: scenario S5, a restack and the cached reg_ignore

\* The three windows of the stack are damaged and a frame is drawn
AllPainted ==
    Frame(repair_win(repair_win(repair_win(Between(Session), Stack[1], Screen),
                                Stack[2], Screen),
                     Stack[3], Screen))

\* In the session p the three windows are painted, A and B solid, and
\* reg_ignore(C) is extents(A) u extents(B)
PaintedSolid(p) ==
    /\ p.halted = "no"
    /\ \A i \in 1..3 : p.win[Stack[i]].to_paint
    /\ p.win[Stack[1]].mode = "SOLID"
    /\ p.win[Stack[2]].mode = "SOLID"
    /\ p.win[Stack[3]].reg_ignore
           = win_extents(win[Stack[1]]) \cup win_extents(win[Stack[2]])

\* The stacks on which the scenario can begin: A on top, B, and C at the
\* bottom, mapped windows of the id-index on a redirected screen, which once
\* damaged are painted, A and B solid, reg_ignore(C) being extents(A) u
\* extents(B)
RestackStart ==
    IF /\ Running /\ redirected /\ Len(Stack) = 3
       /\ \A i \in 1..3 : /\ win[Stack[i]].alloc /\ win[Stack[i]].state = "MAPPED"
                          /\ windows[win[Stack[i]].id] = Stack[i]
       /\ PaintedSolid(AllPainted)
    THEN { Stack } ELSE {}

\* ConfigureNotify for C, with A as the sibling it is put above and its
\* geometry as it is
RestackMoved(abc) ==
    configure_win(Between(AllPainted), win[abc[3]].id, win[abc[1]].id, win[abc[3]].g)

\* The preprocess that follows
RestackDone(abc) == paint_preprocess(Between(RestackMoved(abc)), {}, 1)

\* The extents of a window of the scenario, which do not change in it
RestackExtents(w) == win_extents(win[w])

\* In the session d, C is on top of A, which is on top of B, and the three
\* are painted
RestackOrder(abc, d) ==
    /\ d.halted = "no" /\ d.failed = {}
    /\ Chain(d.win, d.window_stack) = <<abc[3], abc[1], abc[2]>>
    /\ d.frame.t = <<abc[2], abc[1], abc[3]>>

\* The scenario has ended in the session d as S5 says
RestackStated(abc, d) ==
    /\ RestackOrder(abc, d)
    /\ d.win[abc[3]].reg_ignore = {}
    /\ d.win[abc[1]].reg_ignore = {}
    /\ d.win[abc[2]].reg_ignore = RestackExtents(abc[3])
    /\ RestackExtents(abc[3]) \subseteq d.added[1]
    /\ RestackExtents(abc[1]) \subseteq d.added[1]

\* What the windows before the i-th of the order that are solid in the
\* session d cover
RestackCovered(order, d, i) ==
    UNION { RestackExtents(order[j]) :
              j \in {k \in 1..(i - 1) : d.win[order[k]].mode = "SOLID"} }

\* The scenario has ended in the session d with every reg_ignore the union of
\* the solid windows above, and with C as the damage
RestackUnions(abc, d) ==
    /\ RestackOrder(abc, d)
    /\ d.win[abc[3]].reg_ignore = {}
    /\ d.win[abc[1]].reg_ignore
           = (IF d.win[abc[3]].mode = "SOLID" THEN RestackExtents(abc[3]) ELSE {})
    /\ d.win[abc[2]].reg_ignore = d.win[abc[1]].reg_ignore \cup RestackExtents(abc[1])
    /\ \A i \in 1..3 :
           d.win[<<abc[3], abc[1], abc[2]>>[i]].reg_ignore
               = RestackCovered(<<abc[3], abc[1], abc[2]>>, d, i)
    /\ d.added[1] = RestackExtents(abc[3])
    /\ \A i \in 1..3 : d.win[abc[i]].reg_ignore_valid

\* The scenario has ended in the session d with a solid C that covers less
\* than A
RestackSmallOnTop(abc, d) ==
    /\ RestackOrder(abc, d)
    /\ RestackExtents(abc[1]) = Screen
    /\ RestackExtents(abc[3]) # Screen
    /\ d.win[abc[3]].mode = "SOLID"
    /\ d.win[abc[1]].reg_ignore = RestackExtents(abc[3])

\* C25 as stated: after the ConfigureNotify that moves C above A and one
\* preprocess, reg_ignore(C) and reg_ignore(A) are empty, reg_ignore(B) is
\* extents(C), and both C and A have been added to the damage.
C25_RestackScenario ==
    \A abc \in RestackStart : RestackStated(abc, RestackDone(abc))

\* C25 amended: reg_ignore(C) is empty, reg_ignore(A) is extents(C) if C is
\* solid and empty if it is not, reg_ignore(B) is reg_ignore(A) u extents(A),
\* and C, and nothing but C, has been added to the damage.
C25_RestackScenarioCovered ==
    \A abc \in RestackStart : RestackUnions(abc, RestackDone(abc))

\* The scenario runs with a solid C that covers less than A
C25_Witness ==
    \E abc \in RestackStart : RestackSmallOnTop(abc, RestackDone(abc))

\* ---------------------------------------------------------------------
\* C26: what restack_win invalidates

\* The session in which the three windows of the stack have been damaged
\* and painted, so that each has its cached reg_ignore
Cached == Between(AllPainted)

\* The calls of restack_win in the session p, for a window w of the index
\* that is to go above the sibling with the id above, that return and change
\* the order of the stack
MovesIn(p) ==
    { c \in { [w |-> windows[id], above |-> a, s |-> restack_win(p, windows[id], a)] :
                id \in {i \in env.ids : windows[i] # NULL},
                a \in env.ids \cup {NULL} } :
        /\ c.above # win[c.w].id
        /\ c.s.halted = "no"
        /\ Chain(c.s.win, c.s.window_stack) # Stack }

\* The window right below w before the call, and the one after it
OldLower(c) == win[c.w].next
NewLower(c) == c.s.win[c.w].next

\* The call has left reg_ignore_valid false for the window n
Invalidated(c, n) == ~c.s.win[n].reg_ignore_valid

\* The call has dropped the cached reg_ignore of the moved window and of the
\* window that was right below it, and left those of the other windows of the
\* session p as they were
OldLowerOnly(p, c) ==
    /\ Invalidated(c, c.w) /\ c.s.win[c.w].reg_ignore = NoRegion
    /\ OldLower(c) # NULL =>
           /\ Invalidated(c, OldLower(c))
           /\ c.s.win[OldLower(c)].reg_ignore = NoRegion
    /\ \A n \in Addr \ {c.w, OldLower(c)} :
           /\ c.s.win[n].reg_ignore_valid = p.win[n].reg_ignore_valid
           /\ c.s.win[n].reg_ignore = p.win[n].reg_ignore

\* The three windows have a cached reg_ignore in the session p, and the call
\* has one of them as the old and another as the new lower neighbour of w
BetweenCached(p, c) ==
    /\ OldLower(c) # NULL /\ NewLower(c) # NULL
    /\ \A n \in {c.w, OldLower(c), NewLower(c)} :
           p.win[n].reg_ignore_valid /\ p.win[n].reg_ignore # NoRegion
    /\ c.s.win[NewLower(c)].reg_ignore_valid

\* There are three windows to restack
Movable == "restack" \in env.events /\ Running /\ Len(Stack) = 3

\* C26 as stated: a restack_win that changes the order of the stack leaves
\* reg_ignore_valid false for the moved window, for the window that was right
\* below it before the move and for the window that is right below it after
\* the move.
C26_RestackInvalidates ==
    Movable => \A c \in MovesIn(Cached) :
        /\ Invalidated(c, c.w)
        /\ OldLower(c) # NULL => Invalidated(c, OldLower(c))
        /\ NewLower(c) # NULL => Invalidated(c, NewLower(c))

\* C26 amended: it leaves reg_ignore_valid false, and no reg_ignore, for the
\* moved window and for the window that was right below it before the move,
\* and leaves the reg_ignore_valid and the reg_ignore of every other window,
\* the window that is right below it after the move among them, as they were.
C26_RestackInvalidatesOldLower ==
    Movable => \A c \in MovesIn(Cached) : OldLowerOnly(Cached, c)

\* A window is moved from above one window with a cached reg_ignore to above
\* another
C26_Witness ==
    Movable /\ \E c \in MovesIn(Cached) : BetweenCached(Cached, c)

\* ---------------------------------------------------------------------
\* C27: when the screen can be unredirected

\* The topmost window that the preprocess that left s has put on the paint
\* list, NULL if it has put none: the list starts with the bottom-most
TopPainted(s) == IF s.frame.t = <<>> THEN NULL ELSE s.frame.t[Len(s.frame.t)]

\* The window is solid, covers the screen and is not excluded from
\* unredirection; no window has a frame
AllowsUnredir(W) ==
    W.mode = "SOLID" /\ W.g = Screen /\ ~W.unredir_if_possible_excluded

\* The preprocess has decided as the topmost painted window says
DecidedByTop(p) ==
    p.s.frame.unredir_possible
        <=> /\ TopPainted(p.s) # NULL
            /\ AllowsUnredir(p.s.win[TopPainted(p.s)])

\* The preprocess has left the screen redirected, with a damage ring
Redirected(p) == p.s.redirected /\ p.s.damage_ring # <<>>

CirculateCalls ==
    IF ~Running THEN {}
    ELSE { [w |-> windows[id], on_top |-> on_top,
            s |-> circulate_win(Session, id, on_top)] :
             id \in {i \in env.ids : windows[i] # NULL}, on_top \in BOOLEAN }

\* The window w is the first, or the last, node of the stack of the session s
OnTop(s, w) == s.window_stack = w
AtBottom(s, w) ==
    /\ ~Cyclic(s.win, s.window_stack)
    /\ Len(Chain(s.win, s.window_stack)) > 0
    /\ Chain(s.win, s.window_stack)[Len(Chain(s.win, s.window_stack))] = w

\* C28: after circulate_win for a window w of the index, w is the topmost
\* node of the window stack if the place is PlaceOnTop and the bottom-most
\* node if it is not, whatever the stack holds.
C28_CirculateToTopOrBottom ==
    \A c \in CirculateCalls :
        c.s.halted = "no" =>
            IF c.on_top THEN OnTop(c.s, c.w) ELSE AtBottom(c.s, c.w)

\* ---------------------------------------------------------------------
\* C29: the paint list

\* The windows met by following prev_trans from the window n of the heap w,
\* until NULL or a window met before
RECURSIVE TransFrom(_, _, _)
TransFrom(w, n, acc) ==
    IF n = NULL \/ (\E i \in 1..Len(acc) : acc[i] = n) THEN acc
    ELSE TransFrom(w, w[n].prev_trans, Append(acc, n))

\* The list that paint_preprocess returns in the session s: its head t, and
\* the windows that follow through prev_trans
ListHead(s) == IF s.frame.t = <<>> THEN NULL ELSE s.frame.t[1]
TransList(s) == TransFrom(s.win, ListHead(s), <<>>)

\* The windows of the sequence c that are painted in the session s, in the
\* order of c
RECURSIVE PaintedOf(_, _)
PaintedOf(s, c) ==
    IF c = <<>> THEN <<>>
    ELSE IF s.win[Head(c)].to_paint THEN <<Head(c)>> \o PaintedOf(s, Tail(c))
    ELSE PaintedOf(s, Tail(c))

\* The painted windows of the stack of the session s, from the top
PaintedFromTop(s) == PaintedOf(s, Chain(s.win, s.window_stack))

Reversed(c) == [i \in 1..Len(c) |-> c[Len(c) + 1 - i]]

\* C29 as stated: the head of the list that paint_preprocess returns is the
\* topmost painted window, and prev_trans leads from it through the other
\* painted windows in the order of the stack, from the top to the
\* bottom-most painted window.
C29_PaintListFromTop ==
    \A p \in Preprocessed :
        p.s.halted = "no" => TransList(p.s) = PaintedFromTop(p.s)

\* C29 amended: the head of the list is the bottom-most painted window, and
\* prev_trans leads from it through the other painted windows, each once,
\* from the bottom to the topmost painted window.
C29_PaintListFromBottom ==
    \A p \in Preprocessed :
        p.s.halted = "no" =>
            /\ TransList(p.s) = Reversed(PaintedFromTop(p.s))
            /\ p.s.frame.t = TransList(p.s)
            /\ TransList(p.s) # <<>> =>
                   p.s.win[TransList(p.s)[Len(TransList(p.s))]].prev_trans = NULL

\* A list of two windows is returned
C29_Witness ==
    \E p \in Preprocessed :
        /\ p.s.halted = "no" /\ p.s.redirected
        /\ Len(TransList(p.s)) = 2
        /\ ListHead(p.s) = p.s.win[p.s.window_stack].next
        /\ p.s.win[ListHead(p.s)].prev_trans = p.s.window_stack

\* ---------------------------------------------------------------------
\* C31: the fade timer after a frame

\* The sessions that _draw_callback can leave in the current state, the fade
\* timer being active or not when it begins
DrawCallbacks ==
    IF ~Running THEN {}
    ELSE { draw_callback_whole([Session EXCEPT !.buffer_age = age,
                                               !.fade_timer = timer],
                               fails, dt) :
             timer \in BOOLEAN, fails \in env.fails, dt \in 0..MaxElapsed,
             age \in env.ages }

\* The windows of the session s that are in the middle of a fade
MidFade(s) ==
    { a \in Addr : /\ s.win[a].alloc
                   /\ s.win[a].state \in {"MAPPING", "FADING", "UNMAPPING", "DESTROYING"} }

\* The same, of the windows that the frame can reach through the stack
MidFadeInStack(s) == MidFade(s) \cap StackOf(s)

\* C31: after every draw callback the fade timer is active iff the
\* preprocess of the frame has reported fade_running, and fade_time is unset
\* iff it has not; so the fade timer, whose callback queues a redraw, is
\* active after a frame that leaves a window in the middle of a fade, and it
\* is not active after a frame that began with every window MAPPED or UNMAPPED.
C31_FadeTimerFollowsFadeRunning ==
    \A s \in DrawCallbacks :
        s.halted = "no" =>
            /\ s.fade_timer <=> s.frame.fade_running
            /\ s.fade_time = -1 <=> ~s.frame.fade_running
            /\ MidFade(s) # {} => s.fade_timer
            /\ MidFade(Session) = {} => ~s.fade_timer

\* What holds of the windows of the stack
FadeTimerFollowsStack ==
    \A s \in DrawCallbacks :
        s.halted = "no" =>
            /\ s.fade_timer <=> s.frame.fade_running
            /\ s.fade_time = -1 <=> ~s.frame.fade_running
            /\ MidFadeInStack(s) # {} => s.fade_timer
            /\ MidFadeInStack(Session) = {} => ~s.fade_timer

\* ---------------------------------------------------------------------
\* C32: the ignore list of X request serials

\* Most entries of the ignore list
MaxIgnore == 3

\* discard_ignore: the entries at the head of the list whose sequence is
\* less than the given one are freed; unsigned long values are compared
RECURSIVE discard_ignore(_, _)
discard_ignore(list, sequence) ==
    IF list # <<>> /\ sequence > Head(list)
    THEN discard_ignore(Tail(list), sequence)
    ELSE list

\* should_ignore: the list that it leaves, and what it returns
should_ignore(list, sequence) ==
    [ list |-> discard_ignore(list, sequence),
      ret |-> /\ discard_ignore(list, sequence) # <<>>
              /\ Head(discard_ignore(list, sequence)) = sequence ]

\* set_ignore: an entry for the sequence is appended at ps->ignore_tail
set_ignore(list, sequence) == Append(list, sequence)

\* The request with serial a was sent before the one with serial b, in the
\* order of serials that wrap: b - a, modulo 2^SerialBits, is positive as a
\* signed number
Older(a, b) == ((b - a) % SerialMod) \in 1..(SerialMod \div 2 - 1)

\* The list without the entries at its head that are older than the
\* sequence, in the order of serials that wrap
RECURSIVE WithoutOlder(_, _)
WithoutOlder(list, sequence) ==
    IF list # <<>> /\ Older(Head(list), sequence)
    THEN WithoutOlder(Tail(list), sequence)
    ELSE list

\* The requests that are sent and whose answer has not arrived
Outstanding == (ignore.next - 1 - ignore.seen) % SerialMod

\* The serials that the next error or event can carry: the one that arrived
\* last, or that of a request sent since
Arriving == { (ignore.seen + k) % SerialMod : k \in 0..Outstanding }

\* The connection after any number of requests, none of them outstanding
\* and the ignore list empty
InitIgnore ==
    /\ win = [a \in Addr |-> win_def]
    /\ window_stack = NULL
    /\ windows = [i \in Xids |-> NULL]
    /\ active_win = NULL
    /\ redirected = FALSE
    /\ fade_time = -1
    /\ damage_ring = <<>>
    /\ damage = 0
    /\ added = <<>>
    /\ unredir_timer = FALSE
    /\ tmout_unredir_hit = FALSE
    /\ o = Options /\ env = Plain
    /\ tree = [children |-> <<>>, added |-> 0, mapped |-> 0]
    /\ loop = session_run(Options)
    /\ \E n \in Serials :
          ignore = [NoIgnore EXCEPT !.next = n, !.seen = (n - 1) % SerialMod]
    /\ halted = "no"

Session_vars ==
    <<win, window_stack, windows, active_win, redirected, fade_time, o, env,
      halted, damage_ring, damage, added, unredir_timer, tmout_unredir_hit, tree,
      loop>>

\* A request is sent, after set_ignore_next or not.  Fewer than half of the
\* serials are outstanding at any time.
x_request ==
    /\ Outstanding < SerialMod \div 2 - 1
    /\ \E ign \in BOOLEAN :
          /\ ign => Len(ignore.list) < MaxIgnore
          /\ ignore' = [ignore EXCEPT
                           !.list = IF ign THEN set_ignore(@, ignore.next) ELSE @,
                           !.next = (@ + 1) % SerialMod]
    /\ UNCHANGED Session_vars

\* ev_xcb_error: an error arrives
x_error ==
    /\ \E sequence \in Arriving :
          ignore' = [ignore EXCEPT
                        !.list = should_ignore(ignore.list, sequence).list,
                        !.ret = should_ignore(ignore.list, sequence).ret,
                        !.seen = sequence]
    /\ UNCHANGED Session_vars

\* ev_handle: an event arrives
x_event ==
    /\ \E sequence \in Arriving :
          ignore' = [ignore EXCEPT
                        !.list = discard_ignore(ignore.list, sequence),
                        !.seen = sequence]
    /\ UNCHANGED Session_vars

NextIgnore == x_request \/ x_error \/ x_event

SpecIgnore == InitIgnore /\ [][NextIgnore]_vars

\* C32: should_ignore(seq) discards from the head of the ignore list exactly
\* the entries that are older than seq in the order of serials that wrap, and
\* returns true iff the head that remains equals seq; so an entry registered
\* before the serial counter wraps is matched, and the newer entries are
\* kept, when the error arrives after the wrap.
C32_WrappingIgnore ==
    \A sequence \in Arriving :
        /\ should_ignore(ignore.list, sequence).list
               = WithoutOlder(ignore.list, sequence)
        /\ should_ignore(ignore.list, sequence).ret
               <=> /\ WithoutOlder(ignore.list, sequence) # <<>>
                   /\ Head(WithoutOlder(ignore.list, sequence)) = sequence

\* The serials of the list and the one that arrives are on one side of the
\* wrap
Unwrapped(sequence) ==
    \A i \in 1..Len(ignore.list) :
        Older(ignore.list[i], sequence) <=> ignore.list[i] < sequence

\* What holds: should_ignore does so as long as no serial has wrapped
IgnoreBeforeWrap ==
    \A sequence \in Arriving :
        Unwrapped(sequence) =>
            /\ should_ignore(ignore.list, sequence).list
                   = WithoutOlder(ignore.list, sequence)
            /\ should_ignore(ignore.list, sequence).ret
                   <=> /\ WithoutOlder(ignore.list, sequence) # <<>>
                       /\ Head(WithoutOlder(ignore.list, sequence)) = sequence

\* ---------------------------------------------------------------------
\* C33: the back-links of the stack

\* *w->prev == w
BackLinked(s, w) == Deref(s, s.win[w].prev) = w

\* C33: after add_win, restack_win, circulate_win and finish_destroy_win
\* every node w of the window stack satisfies *w->prev == w, so that the
\* unlinking of finish_destroy_win removes exactly w from the stack.
C33_BackLinksConsistent ==
    \A i \in 1..Len(Stack) : BackLinked(Session, Stack[i])

\* ---------------------------------------------------------------------
\* C34: restack_win and an id that is in use again

\* The sessions that a CreateNotify can leave when the heap has a free cell,
\* and the present one
Recreated ==
    IF ~Running THEN {}
    ELSE {Session} \cup
         { add_win(Session, id, NULL, reply, damage_ok, a) :
             id \in Ids, reply \in env.replies, damage_ok \in env.ok,
             a \in {c \in Addr : ~win[c].alloc /\ \A b \in Addr : ~win[b].alloc => c <= b} }

\* The calls restack_win(w, above) of a ConfigureNotify that arrives then
RestackCallsIn(from) ==
    { [from |-> from, w |-> from.windows[id], above |-> a,
       s |-> restack_win(from, from.windows[id], a)] :
        id \in {i \in Ids : from.windows[i] # NULL}, a \in Ids }

RecreatedRestackCalls ==
    IF "restack" \notin env.events THEN {}
    ELSE UNION { RestackCallsIn(from) : from \in {r \in Recreated : r.halted = "no"} }

\* The first loop of restack_win finds a window with the id that is not
\* DESTROYING: the call does not return with "Failed to found new above window"
FoundAbove(c) ==
    /\ ~Cyclic(c.from.win, c.from.window_stack)
    /\ \E n \in StackOf(c.from) :
          c.from.win[n].id = c.above /\ c.from.win[n].state # "DESTROYING"

\* w is immediately above a live window with the id
AboveLive(c) ==
    /\ c.s.win[c.w].next # NULL
    /\ c.s.win[c.s.win[c.w].next].id = c.above
    /\ c.s.win[c.s.win[c.w].next].state # "DESTROYING"

\* The node directly below w before the call is a DESTROYING window with the
\* id, which a newer window has as well
BelowIsDestroyingNamesake(c) ==
    /\ c.from.win[c.w].next # NULL
    /\ c.from.win[c.from.win[c.w].next].id = c.above
    /\ c.from.win[c.from.win[c.w].next].state = "DESTROYING"

\* C34: after a restack_win(w, a) with a # 0 that returns without error, w is
\* immediately above the live window with id a in the stack, also when the
\* node directly below w before the call is a DESTROYING window with the
\* same id a as a newer live window.
C34_RestackedAboveLive ==
    \A c \in RecreatedRestackCalls :
        (c.above # c.from.win[c.w].id /\ FoundAbove(c)
         /\ c.s.halted = "no" /\ ~c.s.ub) => AboveLive(c)

\* What holds: so it is unless the node below w is such a DESTROYING window
RestackedAboveLiveElsewhere ==
    \A c \in RecreatedRestackCalls :
        (c.above # c.from.win[c.w].id /\ FoundAbove(c) /\ ~BelowIsDestroyingNamesake(c)
         /\ c.s.halted = "no" /\ ~c.s.ub) => AboveLive(c)

\* The case of the namesake happens
NamesakeBelow ==
    \E c \in RecreatedRestackCalls :
        c.above # c.from.win[c.w].id /\ FoundAbove(c) /\ BelowIsDestroyingNamesake(c)

\* ---------------------------------------------------------------------
\* C35: the images of the paint list

\* The frames of the present state that hand a paint list to paint_all_new
\* with the screen redirected
PaintedRedirected ==
    IF ~Running THEN {}
    ELSE { s \in draw_frame : s.halted = "no" /\ s.frame.paint /\ s.frame.redirected }

\* C35: with the screen redirected, every window that paint_preprocess has
\* put in the paint list has a bound window image and not the IMAGE_ERROR
\* flag when the list is handed to paint, also in the frame in which the
\* rebind of a stale image is tried and fails.
C35_PaintListHasImages ==
    \A s \in PaintedRedirected :
        \A i \in 1..Len(s.frame.t) :
            s.win[s.frame.t[i]].win_image /\ ~s.win[s.frame.t[i]].image_error

\* The windows of the paint list whose stale image has been bound anew in
\* the frame, or was not stale
Rebound(s) ==
    { w \in Addr : ~(win[w].alloc /\ win[w].stale_image /\ s.win[w].image_error) }

\* What holds: so it is for the windows whose rebind did not fail in the
\* frame
PaintListHasImagesUnlessRebindFailed ==
    \A s \in PaintedRedirected :
        \A i \in 1..Len(s.frame.t) :
            s.frame.t[i] \in Rebound(s) =>
                s.win[s.frame.t[i]].win_image /\ ~s.win[s.frame.t[i]].image_error

\* ---------------------------------------------------------------------
\* C36: the shadow image

\* Sessions with the option shadow on or off, the screen staying redirected
\* or being unredirected when it can be, in which the shadow of a window is
\* forced on or off or left to the rules at any time, and the backend may
\* fail to render a shadow.
ShadowRuns == {
    <<[NoUnredir EXCEPT !.shadow = TRUE],
      [Plain EXCEPT !.events = {"destroy"}, !.ids = {1}]>>,
    <<[Options EXCEPT !.shadow = TRUE, !.inactive_opacity = MaxOpacity, !.fade = FALSE],
      [Plain EXCEPT !.events = {"destroy"}, !.ids = {1}]>>,
    <<[NoUnredir EXCEPT !.fade = FALSE],
      [Plain EXCEPT !.events = {"destroy"}, !.ids = {1}]>>
}

InitShadow == InitIn(ShadowRuns)

\* The calls of win_set_shadow_force that a request over D-Bus can make
shadow_force(id) ==
    IF find_win(Session, id) = NULL THEN {}
    ELSE { win_set_shadow_force(Session, find_win(Session, id), val, shadow_ok) :
             val \in {"UNSET", "ON", "OFF"}, shadow_ok \in BOOLEAN }

dbus_shadow_force(id) == Running /\ \E s \in shadow_force(id) : Outcome(s)

NextShadow ==
    \/ \E id \in env.ids : ev_create_notify(id)
    \/ \E id \in env.ids : ev_map_notify(id)
    \/ \E id \in env.ids : ev_unmap_notify(id)
    \/ \E id \in env.ids : ev_destroy_notify(id)
    \/ \E id \in env.ids : dbus_shadow_force(id)
    \/ draw

SpecShadow == InitShadow /\ [][NextShadow]_vars

\* The sessions that the handlers of SpecShadow can leave from the present
\* state
ShadowCalls ==
    IF ~Running THEN {}
    ELSE UNION ( {create_notify(id) : id \in env.ids}
                 \cup {map_notify(id) : id \in env.ids}
                 \cup {unmap_notify(id) : id \in env.ids}
                 \cup {destroy_notify(id) : id \in env.ids}
                 \cup {shadow_force(id) : id \in env.ids}
                 \cup {draw_frame} )

\* A shadow image is bound only to a window that has the shadow flag and a
\* bound window image
ShadowImageOnlyWithShadow(s) ==
    \A w \in Addr :
        (s.win[w].alloc /\ s.win[w].shadow_image) =>
            s.win[w].shadow /\ s.win[w].win_image

\* C36: in every reachable state a window has a shadow image bound only if
\* its shadow flag is true and its window image is bound, so that the
\* assertions of win_set_shadow and of win_bind_image never fail, also when
\* the shadow flag of a mapped window is switched while the screen is
\* redirected, and win_release_image leaks no shadow image.
C36_ShadowImageBound ==
    /\ ShadowImageOnlyWithShadow(Session)
    /\ \A s \in ShadowCalls :
          /\ "win_set_shadow" \notin s.failed
          /\ "win_bind_image" \notin s.failed

\* ---------------------------------------------------------------------
\* C37: the screen is redirected iff the damage ring is allocated

\* The damage ring of the session s is allocated with max_buffer_age regions,
\* and ps->damage points at one of them
RingAllocated(s) ==
    /\ Len(s.damage_ring) = s.max_buffer_age
    /\ s.max_buffer_age >= 1
    /\ s.damage \in 1..Len(s.damage_ring)

\* The damage ring is freed
RingFreed(s) == s.damage_ring = <<>>

RedirectedIffRing(s) ==
    /\ s.redirected => RingAllocated(s)
    /\ ~s.redirected => RingFreed(s)

\* session_destroy: the screen is unredirected if it is redirected, and every
\* window of the stack is taken out of the hash table and freed
session_destroy(s) ==
    LET s1 == Walk(IF s.redirected THEN redir_stop(s) ELSE s) IN
    [s1 EXCEPT !.win = [a \in Addr |-> IF a \in StackOf(s1) THEN win_def ELSE s1.win[a]],
               !.windows = [i \in Xids |->
                               IF s1.windows[i] \in StackOf(s1) THEN NULL
                               ELSE s1.windows[i]],
               !.active_win = NULL,
               !.window_stack = NULL,
               !.halted = IF s1.halted = "no" THEN "exit" ELSE s1.halted]

\* The sessions that the callers of redir_start and redir_stop, and
\* configure_root, can leave from the present state
RedirCalls ==
    IF ~Running THEN {}
    ELSE draw_frame \cup configure_notify_root \cup {session_destroy(Session)}

\* C37: the screen is redirected iff the damage ring is allocated with
\* ndamage = max_buffer_age >= 1 regions and the current pointer inside it;
\* when it is not redirected the ring is freed and add_damage changes
\* nothing; and redir_start is only called with the screen not redirected,
\* redir_stop only with the screen redirected, be it by paint_preprocess, by
\* configure_root or by session_destroy.
C37_RedirectedIffDamageRing ==
    /\ RedirectedIffRing(Session)
    /\ ~redirected => \A region \in SUBSET Screen : add_damage(Session, region) = Session
    /\ \A s \in RedirCalls :
          /\ "redir_start" \notin s.failed
          /\ "redir_stop" \notin s.failed
          /\ s.halted # "abort" => RedirectedIffRing(s)

\* A frame in which paint_preprocess unredirects the screen, a
\* session_destroy that does, and a configure_root that keeps the ring
C37_Witness ==
    /\ redirected /\ RingAllocated(Session)
    /\ \E s \in draw_frame : s.halted = "no" /\ ~s.redirected /\ RingFreed(s)
    /\ ~session_destroy(Session).redirected

\* ---------------------------------------------------------------------
\* C38: fades come to an end

\* A session with one window id, in which windows fade, the focus comes and
\* goes, the screen stays redirected, and a ConfigureNotify of the root may
\* ask for a frame at any time
FadeRuns == {
    <<NoUnredir, [Plain EXCEPT !.events = {"root", "destroy", "focus"}, !.ids = {1}]>>
}

InitFade == InitIn(FadeRuns)

\* The fade timer has gone off since the last frame: it was started by a
\* frame that left fade_time set, for the time fade_timeout, and is no longer
\* active
FadeTimerExpired == fade_time >= 0 /\ ~loop.fade_timer

\* The frames that the callback of draw_idle can draw.  The fade timer goes
\* off when fade_delta has passed since ps->fade_time, so that a frame drawn
\* after it finds at least one step.
TimedFrames ==
    { draw_idle_callback([Session EXCEPT !.buffer_age = age], fails, dt) :
        fails \in env.fails, age \in env.ages,
        dt \in {d \in 0..MaxElapsed : FadeTimerExpired => fade_time + d >= o.fade_delta} }

fade_destroy_notify ==
    Running /\ \E id \in env.ids : \E s \in destroy_notify(id) : Handled(s)

fade_focus ==
    Running /\ \E wid \in env.ids \cup {NULL} : \E s \in focus_change(wid) : Handled(s)

fade_draw_idle ==
    /\ Running /\ loop.draw_idle
    /\ \E s \in TimedFrames : Handled(s)

NextFade ==
    \/ loop_create_notify
    \/ loop_map_notify
    \/ loop_unmap_notify
    \/ fade_destroy_notify
    \/ fade_focus
    \/ loop_configure_notify_root
    \/ loop_fade_timer
    \/ fade_draw_idle

\* The step of the fade timer as loop shows it: the timer is no longer
\* active, and no frame has been drawn
fade_timer_invoked ==
    /\ Running /\ loop.fade_timer
    /\ \E l \in LoopStates : ~l.fade_timer /\ l.frames = loop.frames /\ loop' = l

\* The event loop runs the callback of the fade timer when its time has
\* come, and that of draw_idle while it is active
SpecFade ==
    /\ InitFade /\ [][NextFade]_vars
    /\ WF_loop(fade_timer_invoked) /\ WF_loop(draw_idle_invoked)

\* The window in the cell a is fading in the state st towards the opacity tgt,
\* and the fade timer is armed or has just gone off
Fading(a, st, tgt) ==
    /\ halted = "no"
    /\ win[a].alloc /\ win[a].state = st /\ win[a].opacity_tgt = tgt
    /\ fade_time >= 0

\* The window in the cell a has come to the end of a fade in the state st: it
\* is MAPPED after MAPPING or FADING, UNMAPPED after UNMAPPING, freed and out
\* of the stack after DESTROYING
Ended(a, st) ==
    /\ halted = "no"
    /\ CASE st \in {"MAPPING", "FADING"} ->
                win[a].alloc /\ win[a].state = "MAPPED"
         [] st = "UNMAPPING" -> win[a].alloc /\ win[a].state = "UNMAPPED"
         [] st = "DESTROYING" -> ~win[a].alloc /\ ~InChain(win, window_stack, a)

\* A later event has given the window another state or another target
Turned(a, st, tgt) ==
    /\ halted = "no"
    /\ win[a].alloc
    /\ win[a].state \in {"MAPPING", "FADING", "UNMAPPING", "DESTROYING"}
    /\ win[a].state # st \/ win[a].opacity_tgt # tgt

ActiveWinLive(s) ==
    \/ s.active_win = NULL
    \/ /\ s.win[s.active_win].alloc
       /\ s.windows[s.win[s.active_win].id] = s.active_win
       /\ s.win[s.active_win].viewable
       /\ s.win[s.active_win].state \notin {"UNMAPPING", "DESTROYING"}

\* The windows of the session s that are really focused
FocusedReal(s) == { w \in Addr : s.win[w].alloc /\ win_is_focused_real(s, w) }

\* The calls win_set_focused(w, true) that a focus event can make from the
\* present state, for the windows that the X server has mapped
FocusCalls ==
    IF ~Running THEN {}
    ELSE { [w |-> windows[id], s |-> win_set_focused(Session, windows[id], TRUE)] :
             id \in {i \in Ids : windows[i] # NULL /\ win[windows[i]].viewable} }

\* The sessions that the handlers which call win_set_focused can leave from
\* the present state
FocusHandled ==
    IF ~Running THEN {}
    ELSE UNION ( {unmap_notify(id) : id \in Ids} \cup {destroy_notify(id) : id \in Ids}
                 \cup {focus_change(wid) : wid \in Ids \cup {NULL}} )

\* C39: ps->active_win is always NULL or a window that is in the id-index
\* and whose map state is not unmapped, never an UNMAPPING, DESTROYING or
\* freed window; setting the focus on a window clears the real focus of the
\* window that was active, so that at most one window is really focused.
C39_ActiveWinLive ==
    /\ ActiveWinLive(Session)
    /\ Cardinality(FocusedReal(Session)) <= 1
    /\ \A s \in FocusHandled : "win_set_focused" \notin s.failed
    /\ \A c \in FocusCalls :
          /\ c.s.active_win = c.w
          /\ FocusedReal(c.s) = {c.w}
          /\ ActiveWinLive(c.s)

\* The focus goes from one window to another
C39_Witness ==
    /\ active_win # NULL
    /\ \E c \in FocusCalls : c.w # active_win /\ c.s.active_win = c.w

\* ---------------------------------------------------------------------
\* C40: the children of the root at session_init

\* session_init is adding the children that QueryTree has reported
Populating == halted = "no" /\ tree.added < Len(tree.children)

\* The child that session_init adds next, and the one before it
NextChild == tree.children[tree.added + 1]
ChildBefore == IF tree.added > 0 THEN tree.children[tree.added] ELSE NULL

\* C40: while session_init adds the children of the root with
\* add_win(children[i], children[i-1]), the lookup of the predecessor never
\* fails (assert(w) in add_win holds), and every child that passes the checks
\* of add_win is inserted in X stacking order, directly above the child
\* before it, also when add_win has rejected the child before it.
C40_InitPredecessorFound ==
    Populating =>
        \A s \in session_init_add :
            /\ "add_win" \notin s.failed
            /\ s.halted = "no"
            /\ (s.windows[NextChild] # NULL /\ ChildBefore # NULL) =>
                   s.win[s.windows[NextChild]].next = s.windows[ChildBefore]

\* What holds: so it is when the child before has been added
InitPredecessorFoundIfAdded ==
    (Populating /\ (ChildBefore = NULL \/ windows[ChildBefore] # NULL)) =>
        \A s \in session_init_add :
            /\ "add_win" \notin s.failed
            /\ s.halted = "no"
            /\ (s.windows[NextChild] # NULL /\ ChildBefore # NULL) =>
                   s.win[s.windows[NextChild]].next = s.windows[ChildBefore]

====
